---- MODULE Spec2Model ----
(***************************************************************************)
(* Session coordination actor of happypoints (GameSessionDO): one session, *)
(* its connections, its players, the voting round and the disconnect grace *)
(* timers, translated handler by handler from the worker source.           *)
(*                                                                         *)
(* Encoding.  A nullable value is a sequence of length 0 or 1: None is     *)
(* null, Some(x) a value.  A vote string is a sequence of one-character    *)
(* strings, so that parseInt is computed and not tabulated.  The average   *)
(* is kept in hundredths (6.50 is 650), which is exact for a number with   *)
(* two decimals.                                                           *)
(***************************************************************************)
EXTENDS Integers, Sequences, FiniteSets, TLC

VARIABLES
    status,       \* gameState.status
    players,      \* gameState.players, in array order
    average,      \* gameState.average (hundredths), nullable
    aiSummary,    \* gameState.aiSummary, nullable
    emojiThrows,  \* gameState.emojiThrows, in array order
    sessions,     \* Map<WebSocket, {playerId}>: connection -> playerId
    timers,       \* pending setTimeout(3000) removals, in scheduling order
    now,          \* last value Date.now() returned to the actor
    lastEvent,    \* what the last handler sent, and to which connections
    client        \* the host's browser: the state of its useGameSession hook

vars == <<status, players, average, aiSummary, emojiThrows, sessions, timers, now, lastEvent,
          client>>

----------------------------------------------------------------------------
(* Bounds of the model *)

MaxNow == 2
MaxTimers == 2
MaxPoop == 1

(* Input sets *)

Ids == {"A", "B", "C"}
TwoIds == {"A", "B"}
Conns == {"c1", "c2"}
OneConn == {"c1"}

\* the player id of the client behind each connection
myId(c) == IF c = "c1" THEN "A" ELSE "B"

None == <<>>
Some(x) == <<x>>

\* a damage that knocks out a player at full health in one hit
FullDamage == 100

\* the joinedAt a client writes into its JOIN payload, read from its own clock
ClientTime == 7

VOTING == "voting"
REVEALED == "revealed"

\* vote strings clients send, as character sequences; a character outside
\* ASCII is written by its code point (U+2615 is the coffee cup of the deck)
V5 == <<"5">>
V8 == <<"8">>
V13 == <<"1", "3">>
VUnsure == <<"?">>
VCoffee == <<"U+2615">>
VEmpty == <<>>
V3x == <<"3", "x">>

Votes == {None, Some(V5), Some(V8), Some(VUnsure)}
RichVotes ==
    {None, Some(VEmpty), Some(V5), Some(V8), Some(V13), Some(VUnsure), Some(VCoffee), Some(V3x)}

\* lastEvent when the last handler sent nothing
NoEvent == [type |-> "NONE", from |-> "", to |-> {}]

----------------------------------------------------------------------------
(* Helpers over the players array *)

\* players.findIndex(p => p.id === id); 0 stands for -1
findIndex(ps, id) ==
    IF \E i \in 1..Len(ps) : ps[i].id = id
    THEN CHOOSE i \in 1..Len(ps) : ps[i].id = id /\ \A j \in 1..(i-1) : ps[j].id # id
    ELSE 0

\* the entry of ps with the given id (the id is present)
PlayerOf(ps, id) == ps[findIndex(ps, id)]

\* players.splice(i, 1)
splice(ps, i) == [j \in 1..(Len(ps)-1) |-> IF j < i THEN ps[j] ELSE ps[j+1]]

\* a sort with the comparator reversed: the latest joinedAt comes first
sortedFirstDescending(ps) ==
    CHOOSE i \in 1..Len(ps) :
        /\ \A j \in 1..Len(ps) : ps[i].joinedAt >= ps[j].joinedAt
        /\ \A j \in 1..(i-1) : ps[j].joinedAt # ps[i].joinedAt

\* index of sortedPlayers[0] in the unsorted array: Array.prototype.sort is
\* stable, so among equal joinedAt the first in array order comes first
sortedFirst(ps) ==
    CHOOSE i \in 1..Len(ps) :
        /\ \A j \in 1..Len(ps) : ps[i].joinedAt <= ps[j].joinedAt
        /\ \A j \in 1..(i-1) : ps[j].joinedAt # ps[i].joinedAt

----------------------------------------------------------------------------
\* the hook before its socket has delivered anything: DEFAULT_STATE, no timer
\* set, nothing sent
DEFAULT_CLIENT ==
    [status |-> VOTING, players |-> <<>>, average |-> None, aiSummary |-> None,
     clock |-> 0, autoRevealTimer |-> None, removals |-> <<>>, open |-> TRUE,
     promises |-> 0, sent |-> [type |-> "NONE", at |-> 0],
     revealed |-> 0, answered |-> 0, dropped |-> 0, heldSince |-> None,
     cancelledAt |-> None]

Init ==
    /\ status = VOTING
    /\ players = <<>>
    /\ average = None
    /\ aiSummary = None
    /\ emojiThrows = <<>>
    /\ sessions = [c \in {} |-> ""]
    /\ timers = <<>>
    /\ now = 0
    /\ lastEvent = NoEvent
    /\ client = DEFAULT_CLIENT

\* this.gameState as it is serialised into a STATE_SYNC payload
gameState(st, ps, avg, ai, ets) ==
    [status |-> st, players |-> ps, average |-> avg, aiSummary |-> ai, emojiThrows |-> ets]

\* a handleSession that registers the socket and sends it nothing
ConnectWithoutSync(c) ==
    /\ c \notin DOMAIN sessions
    /\ sessions' = [x \in DOMAIN sessions \cup {c} |-> IF x = c THEN "" ELSE sessions[x]]
    /\ lastEvent' = NoEvent
    /\ UNCHANGED <<client, status, players, average, aiSummary, timers, now, emojiThrows>>

\* broadcast: sendToClient for every entry of sessions; from is the connection
\* whose message the handler was processing ("" for a timer callback)
broadcast(from, type, payload) ==
    [type |-> type, from |-> from, to |-> DOMAIN sessions, payload |-> payload]

\* fetch + handleSession: accept, register, send STATE_SYNC to the new socket
Connect(c) ==
    /\ c \notin DOMAIN sessions
    /\ sessions' = [x \in DOMAIN sessions \cup {c} |-> IF x = c THEN "" ELSE sessions[x]]
    /\ lastEvent' = [type |-> "STATE_SYNC", from |-> "", to |-> {c},
                     payload |-> gameState(status, players, average, aiSummary, emojiThrows)]
    /\ UNCHANGED <<client, status, players, average, aiSummary, timers, now, emojiThrows>>

----------------------------------------------------------------------------
(* case 'JOIN' *)

\* the Player objects clients put in a JOIN message (joinGame builds one with
\* vote null, but the actor takes whatever arrives)
JoinPayloads(ids, votes) ==
    [id : ids, isHost : BOOLEAN, vote : votes, joinedAt : {ClientTime}]

hasExistingHost(ps) == \E i \in 1..Len(ps) : ps[i].isHost

shouldBeHost(ps, player) ==
    player.isHost \/ (~hasExistingHost(ps) /\ Len(ps) = 0)

\* {...player, isHost, joinedAt: Date.now(), isDisconnected: false, health: 100, ...}
newPlayer(ps, player, t) ==
    [id |-> player.id,
     vote |-> player.vote,
     isHost |-> shouldBeHost(ps, player),
     joinedAt |-> t,
     isDisconnected |-> FALSE,
     health |-> 100,
     isKnockedOut |-> FALSE,
     poopHitCount |-> 0,
     isMonkey |-> FALSE,
     lastHitTimestamp |-> None]

\* for comparison: a reconnect that pushes a second entry for the id
reconnectPlayerAppending(ps, i) == Append(ps, [ps[i] EXCEPT !.isDisconnected = FALSE])

\* a reconnect that re-initialises the round data of the entry
reconnectPlayerResetting(ps, i) ==
    [ps EXCEPT ![i].isDisconnected = FALSE, ![i].vote = None]

\* the reconnect branch: players[existingPlayerIndex].isDisconnected = false
reconnectPlayer(ps, i) == [ps EXCEPT ![i].isDisconnected = FALSE]

\* t is what Date.now() returns if the handler reads it: never less than before
handleJoin(c, player, t) ==
    /\ c \in DOMAIN sessions
    /\ sessions' = [sessions EXCEPT ![c] = player.id]
    /\ LET i == findIndex(players, player.id) IN
         IF i # 0
         THEN /\ t = now
              /\ players' = reconnectPlayer(players, i)
              /\ now' = now
         ELSE /\ t >= now
              /\ now' = t
              /\ players' = Append(players, newPlayer(players, player, t))
    /\ lastEvent' = broadcast(c, "JOIN", player)
    /\ UNCHANGED <<status, average, aiSummary, timers, emojiThrows>>

Join(c, player, t) == handleJoin(c, player, t) /\ UNCHANGED client

----------------------------------------------------------------------------
(* case 'VOTE' *)

\* for comparison: the vote written to every player
setVoteOfAll(ps, i, v) == [j \in 1..Len(ps) |-> [ps[j] EXCEPT !.vote = v]]

setVote(ps, i, v) == [ps EXCEPT ![i].vote = v]

\* the case as the actor runs it; the hooks are left to the caller
handleVote(c, id, v) ==
    /\ c \in DOMAIN sessions
    /\ LET i == findIndex(players, id) IN
         IF i # 0
         THEN /\ players' = setVote(players, i, v)
              /\ lastEvent' = broadcast(c, "VOTE", [id |-> id, vote |-> v])
         ELSE /\ players' = players
              /\ lastEvent' = NoEvent
    /\ UNCHANGED <<status, average, aiSummary, sessions, timers, now, emojiThrows>>

Vote(c, id, v) == handleVote(c, id, v) /\ UNCHANGED client

----------------------------------------------------------------------------
(* case 'REVEAL' *)

Digits == {"0", "1", "2", "3", "4", "5", "6", "7", "8", "9"}
Whitespace == {" "}

DigitVal(ch) ==
    CASE ch = "0" -> 0 [] ch = "1" -> 1 [] ch = "2" -> 2 [] ch = "3" -> 3
      [] ch = "4" -> 4 [] ch = "5" -> 5 [] ch = "6" -> 6 [] ch = "7" -> 7
      [] ch = "8" -> 8 [] ch = "9" -> 9

RECURSIVE skipWhitespace(_)
skipWhitespace(s) ==
    IF s # <<>> /\ Head(s) \in Whitespace THEN skipWhitespace(Tail(s)) ELSE s

RECURSIVE leadingDigits(_, _, _)
\* value of the longest prefix of decimal digits; None when there is none
leadingDigits(s, acc, seen) ==
    IF s # <<>> /\ Head(s) \in Digits
    THEN leadingDigits(Tail(s), 10 * acc + DigitVal(Head(s)), TRUE)
    ELSE IF seen THEN Some(acc) ELSE None

\* parseInt(string): leading whitespace, an optional sign, then the longest
\* prefix of decimal digits; NaN (None) when no digit follows
parseInt(s) ==
    LET t == skipWhitespace(s) IN
      IF t # <<>> /\ Head(t) = "-"
      THEN LET r == leadingDigits(Tail(t), 0, FALSE) IN
             IF r = None THEN None ELSE Some(0 - r[1])
      ELSE IF t # <<>> /\ Head(t) = "+"
      THEN leadingDigits(Tail(t), 0, FALSE)
      ELSE leadingDigits(t, 0, FALSE)

\* the sentinel literals of the REVEAL handler; a character outside ASCII is
\* written by its code point.  The second literal is stored in the worker
\* source as the three characters U+00E2 U+02DC U+2022 (the coffee cup U+2615
\* read in the wrong encoding), not as the coffee cup itself
SentinelUnsure == <<"?">>
SentinelCoffee == <<"U+00E2", "U+02DC", "U+2022">>

\* the test of the forEach body: does p's vote enter sum and count?
counted(p) ==
    /\ p.vote # None
    /\ p.vote[1] # <<>>
    /\ p.vote[1] # SentinelUnsure
    /\ p.vote[1] # SentinelCoffee
    /\ parseInt(p.vote[1]) # None

RECURSIVE sumVotes(_, _)
sumVotes(ps, i) ==
    IF i > Len(ps) THEN 0
    ELSE (IF counted(ps[i]) THEN parseInt(ps[i].vote[1])[1] ELSE 0) + sumVotes(ps, i + 1)

RECURSIVE countVotes(_, _)
countVotes(ps, i) ==
    IF i > Len(ps) THEN 0
    ELSE (IF counted(ps[i]) THEN 1 ELSE 0) + countVotes(ps, i + 1)

\* parseFloat((sum / count).toFixed(2)) in hundredths: the nearest hundredth,
\* a tie going away from zero
toFixed2(sum, count) ==
    IF sum >= 0
    THEN (200 * sum + count) \div (2 * count)
    ELSE 0 - ((200 * (0 - sum) + count) \div (2 * count))

\* an average that divides by the number of players, not of numeric votes
computeAverageOverAll(ps) ==
    IF Len(ps) > 0 THEN toFixed2(sumVotes(ps, 1), Len(ps)) ELSE 0

computeAverage(ps) ==
    LET sum == sumVotes(ps, 1)
        count == countVotes(ps, 1)
    IN IF count > 0 THEN toFixed2(sum, count) ELSE 0

Summaries == {"s1"}

\* REVEAL payloads clients send: {status, average, aiSummary}
RevealPayloads == [average : {None, Some(100)}, aiSummary : {None, Some("s1")}]

Reveal(c, payload) ==
    /\ c \in DOMAIN sessions
    /\ status' = REVEALED
    /\ average' = Some(computeAverage(players))
    /\ aiSummary' = payload.aiSummary
    /\ lastEvent' = broadcast(c, "REVEAL",
                       [status |-> REVEALED,
                        average |-> Some(computeAverage(players)),
                        aiSummary |-> payload.aiSummary])
    /\ UNCHANGED <<client, players, sessions, timers, now, emojiThrows>>

----------------------------------------------------------------------------
(* case 'RESET' *)

\* a reset that forgets the first player's vote
clearVotesButFirst(ps) ==
    [i \in 1..Len(ps) |-> IF i = 1 THEN ps[i] ELSE [ps[i] EXCEPT !.vote = None]]

clearVotes(ps) == [i \in 1..Len(ps) |-> [ps[i] EXCEPT !.vote = None]]

\* for comparison: a reset that leaves the average of the round before
ResetKeepingAverage(c) ==
    /\ c \in DOMAIN sessions
    /\ status' = VOTING
    /\ aiSummary' = None
    /\ players' = clearVotes(players)
    /\ lastEvent' = broadcast(c, "RESET", None)
    /\ UNCHANGED <<client, average, sessions, timers, now, emojiThrows>>

Reset(c) ==
    /\ c \in DOMAIN sessions
    /\ status' = VOTING
    /\ average' = None
    /\ aiSummary' = None
    /\ players' = clearVotes(players)
    /\ lastEvent' = broadcast(c, "RESET", None)
    /\ UNCHANGED <<client, sessions, timers, now, emojiThrows>>

----------------------------------------------------------------------------
(* case 'THROW_EMOJI' and case 'HIT_PLAYER' *)

\* the emoji literal THROW_EMOJI compares with: stored in the worker source as
\* the four characters U+00F0 U+0178 U+2019 U+00A9 (the pile of poo U+1F4A9
\* read in the wrong encoding)
PoopLiteral == <<"U+00F0", "U+0178", "U+2019", "U+00A9">>

\* thrower.poopHitCount >= MonkeyThreshold turns the thrower into a monkey
MonkeyThreshold == 5

\* for comparison: a throw that already costs the thrower a health point
countPoopAndHurt(ps, i) ==
    [ps EXCEPT ![i].poopHitCount = @ + 1,
               ![i].isMonkey = IF ps[i].poopHitCount + 1 >= MonkeyThreshold /\ ~ps[i].isMonkey
                               THEN TRUE ELSE @,
               ![i].health = IF @ > 0 THEN @ - 1 ELSE 0]

\* the thrower's entry after one more throw of the compared literal
countPoop(ps, i) ==
    [ps EXCEPT ![i].poopHitCount = @ + 1,
               ![i].isMonkey = IF ps[i].poopHitCount + 1 >= MonkeyThreshold /\ ~ps[i].isMonkey
                               THEN TRUE ELSE @]

\* the EmojiThrow objects of THROW_EMOJI messages (throwEmoji builds them)
EmojiThrows(throwIds, from, to, emojis) ==
    [id : throwIds, fromPlayerId : from, toPlayerId : to, emoji : emojis,
     timestamp : {ClientTime}]

\* ids of the throws in flight; throwEmoji draws a fresh random id each time
InFlight == {emojiThrows[k].id : k \in 1..Len(emojiThrows)}

\* the thrower's counter is below the bound, if this throw is to raise it
WithinPoopBound(emojiThrow, bound) ==
    LET i == findIndex(players, emojiThrow.fromPlayerId) IN
      IF emojiThrow.emoji = PoopLiteral /\ i # 0
      THEN players[i].poopHitCount < bound
      ELSE TRUE

\* the case as the actor runs it; the hooks are left to the caller
handleThrowEmoji(c, emojiThrow) ==
    /\ c \in DOMAIN sessions
    /\ emojiThrows' = Append(emojiThrows, emojiThrow)
    /\ LET i == findIndex(players, emojiThrow.fromPlayerId) IN
         IF emojiThrow.emoji = PoopLiteral /\ i # 0
         THEN players' = countPoop(players, i)
         ELSE players' = players
    /\ lastEvent' = broadcast(c, "THROW_EMOJI", emojiThrow)
    /\ UNCHANGED <<status, average, aiSummary, sessions, timers, now>>

ThrowEmoji(c, emojiThrow) == handleThrowEmoji(c, emojiThrow) /\ UNCHANGED client

\* for comparison: a reset of the health that leaves the knockout flag
resetHealthOnly(ps, i) == [ps EXCEPT ![i].health = 100]

\* the reset branch: health 100, not knocked out
resetHealth(ps, i) == [ps EXCEPT ![i].health = 100, ![i].isKnockedOut = FALSE]

\* the damage branch, t being Date.now()
applyDamage(ps, i, damage, t) ==
    LET h == IF ps[i].health - damage > 0 THEN ps[i].health - damage ELSE 0 IN
      [ps EXCEPT ![i].health = h, ![i].isKnockedOut = (h = 0),
                 ![i].lastHitTimestamp = Some(t)]

\* emojiThrows.filter(t => t.id !== throwId)
RECURSIVE removeThrow(_, _)
removeThrow(ts, throwId) ==
    IF ts = <<>> THEN <<>>
    ELSE IF Head(ts).id = throwId THEN removeThrow(Tail(ts), throwId)
    ELSE <<Head(ts)>> \o removeThrow(Tail(ts), throwId)

\* the payloads of HIT_PLAYER messages: removeEmojiThrow sends a throwId with a
\* damage, its reset timer sends reset alone
HitPayloads(throwIds, ids, damages) ==
    [throwId : throwIds, playerId : ids, damage : damages, reset : BOOLEAN]

\* payload: {throwId?, playerId, damage?, reset?}; a missing field is None,
\* and a damage of 0 is as good as missing
handleHitPlayer(c, payload, t) ==
    /\ c \in DOMAIN sessions
    /\ LET i == findIndex(players, payload.playerId) IN
         IF payload.reset
         THEN /\ players' = (IF i # 0 THEN resetHealth(players, i) ELSE players)
              /\ t = now /\ now' = now
         ELSE IF payload.damage # None /\ payload.damage[1] # 0 /\ i # 0
         THEN /\ t >= now /\ now' = t
              /\ players' = applyDamage(players, i, payload.damage[1], t)
         ELSE /\ players' = players
              /\ t = now /\ now' = now
    /\ emojiThrows' = (IF payload.throwId # None
                       THEN removeThrow(emojiThrows, payload.throwId[1])
                       ELSE emojiThrows)
    /\ lastEvent' = broadcast(c, "HIT_PLAYER", payload)
    /\ UNCHANGED <<status, average, aiSummary, sessions, timers>>

HitPlayer(c, payload, t) == handleHitPlayer(c, payload, t) /\ UNCHANGED client

----------------------------------------------------------------------------
(* case 'AI_SUMMARY' *)

AiSummary(c, s) ==
    /\ c \in DOMAIN sessions
    /\ aiSummary' = Some(s)
    /\ lastEvent' = broadcast(c, "AI_SUMMARY", [aiSummary |-> s])
    /\ UNCHANGED <<client, status, players, average, sessions, timers, now, emojiThrows>>

----------------------------------------------------------------------------
(* handlePlayerLeave, case 'LEAVE', the close and error listeners *)

markDisconnected(ps, i) == [ps EXCEPT ![i].isDisconnected = TRUE]

\* the synchronous part of handlePlayerLeave: mark, then setTimeout(..., 3000)
handlePlayerLeave(id) ==
    LET i == findIndex(players, id) IN
      IF i = 0
      THEN UNCHANGED <<players, timers>>
      ELSE /\ players' = markDisconnected(players, i)
           /\ timers' = Append(timers, id)

CanSchedule(id) == findIndex(players, id) = 0 \/ Len(timers) < MaxTimers

handleLeave(c, id) ==
    /\ c \in DOMAIN sessions
    /\ CanSchedule(id)
    /\ handlePlayerLeave(id)
    /\ lastEvent' = broadcast(c, "LEAVE", [id |-> id])
    /\ UNCHANGED <<status, average, aiSummary, sessions, now, emojiThrows>>

Leave(c, id) == handleLeave(c, id) /\ UNCHANGED client

Close(c) ==
    /\ c \in DOMAIN sessions
    /\ IF sessions[c] # ""
       THEN CanSchedule(sessions[c]) /\ handlePlayerLeave(sessions[c])
       ELSE UNCHANGED <<players, timers>>
    /\ sessions' = [x \in DOMAIN sessions \ {c} |-> sessions[x]]
    /\ lastEvent' = NoEvent
    /\ UNCHANGED <<client, status, average, aiSummary, now, emojiThrows>>

\* the error listener only forgets the socket; the close event that follows
\* finds no entry in sessions and does nothing
SocketError(c) ==
    /\ c \in DOMAIN sessions
    /\ sessions' = [x \in DOMAIN sessions \ {c} |-> sessions[x]]
    /\ lastEvent' = NoEvent
    /\ UNCHANGED <<client, status, players, average, aiSummary, timers, now, emojiThrows>>

\* wasHost && players.length > 0: sortedPlayers[0].isHost = true
promote(ps, wasHost) ==
    IF wasHost /\ Len(ps) > 0
    THEN [ps EXCEPT ![sortedFirst(ps)].isHost = TRUE]
    ELSE ps

\* the players array after the timer callback removed index i
removeAt(ps, i) == promote(splice(ps, i), ps[i].isHost)

\* the setTimeout callback of handlePlayerLeave; all delays are 3000 ms, so
\* callbacks run in the order they were scheduled
removalCallback ==
    /\ timers # <<>>
    /\ timers' = Tail(timers)
    /\ LET i == findIndex(players, Head(timers)) IN
         IF i = 0
         THEN /\ players' = players
              /\ lastEvent' = NoEvent
         ELSE /\ players' = removeAt(players, i)
              /\ lastEvent' = broadcast("", "STATE_SYNC",
                                gameState(status, removeAt(players, i), average, aiSummary,
                                          emojiThrows))
    /\ UNCHANGED <<status, average, aiSummary, sessions, now, emojiThrows>>

RemovalTimer == removalCallback /\ UNCHANGED client

----------------------------------------------------------------------------
(* The message listener's catch: whatever JSON.parse or handleMessage throws
   is answered by ERROR to the sending socket; what the handler wrote before
   it threw stays written. *)

MaxThrows == 2

errorTo(c) ==
    [type |-> "ERROR", from |-> c, to |-> {c}, payload |-> "Invalid message format"]

\* event.data is not JSON: JSON.parse throws before handleMessage is called
InvalidJson(c) ==
    /\ c \in DOMAIN sessions
    /\ lastEvent' = errorTo(c)
    /\ UNCHANGED <<client, status, players, average, aiSummary, emojiThrows, sessions, timers, now>>

\* {"type":"REVEAL"}: status and average are assigned, then reading
\* message.payload.aiSummary throws
RevealWithoutPayload(c) ==
    /\ c \in DOMAIN sessions
    /\ status' = REVEALED
    /\ average' = Some(computeAverage(players))
    /\ lastEvent' = errorTo(c)
    /\ UNCHANGED <<client, players, aiSummary, emojiThrows, sessions, timers, now>>

\* {"type":"THROW_EMOJI"}: the missing payload is pushed into emojiThrows
\* (None stands for it), then reading emojiThrow.emoji throws
ThrowEmojiWithoutPayload(c) ==
    /\ c \in DOMAIN sessions
    /\ Len(emojiThrows) < MaxThrows
    /\ emojiThrows' = Append(emojiThrows, None)
    /\ lastEvent' = errorTo(c)
    /\ UNCHANGED <<client, status, players, average, aiSummary, sessions, timers, now>>

----------------------------------------------------------------------------
(* The host's browser: useGameSession of websocketService.ts.  client holds
   the hook's gameState, its clock (seconds), the pending setTimeout of the
   auto-reveal effect, the pending removals scheduled by LEAVE broadcasts,
   the socket's readyState, the pending generateVoteSummary promises and the
   last message the hook sent.  revealed counts the reveals revealVotes went
   through with, answered the AI_SUMMARY messages sent and dropped those
   send() let fall; heldSince is the time since which the
   auto-reveal predicate has held without a break and cancelledAt the time
   the effect last dropped a pending timer because the predicate had become
   false (history kept for the properties, never read by an action).

   A handler and the render and effects it causes are one step. *)

RevealDelay == 5
GraceDelay == 3
MaxClock == 7
MaxReveals == 2

\* the id of the host's hook
Me == myId("c1")

\* ws.onmessage case 'JOIN': the entry with the payload's id is replaced by
\* the payload, else the payload is appended
clientOnJoin(prev, payload) ==
    LET i == findIndex(prev, payload.id) IN
      IF i # 0 THEN [prev EXCEPT ![i] = payload] ELSE Append(prev, payload)

\* the Player objects of JOIN broadcasts, with the fields the hook reads
ClientPlayers(ids, hosts, votes) ==
    [id : ids, isHost : hosts, vote : votes, joinedAt : {ClientTime},
     isDisconnected : {FALSE}, health : {100}, isKnockedOut : {FALSE}]

\* the test of the auto-reveal effect: I am host, status is VOTING, two or
\* more players are not disconnected and each of them has a vote
autoRevealReady(ps, st) ==
    LET active == {i \in 1..Len(ps) : ~ps[i].isDisconnected} IN
      /\ findIndex(ps, Me) # 0
      /\ PlayerOf(ps, Me).isHost
      /\ st = VOTING
      /\ Cardinality(active) >= 2
      /\ \A i \in active : ps[i].vote # None

\* an effect whose cleanup leaves a pending timer alone when the test fails
autoRevealEffectKeepingTimer(cl, ps, st, changed) ==
    IF ~changed THEN cl.autoRevealTimer
    ELSE IF autoRevealReady(ps, st) THEN Some(cl.clock + RevealDelay)
    ELSE cl.autoRevealTimer

\* the auto-reveal effect after a render: when gameState.players (by
\* identity) or gameState.status changed, the cleanup clears the pending
\* timer and the effect sets a new one if its test passes
autoRevealEffect(cl, ps, st, changed) ==
    IF ~changed THEN cl.autoRevealTimer
    ELSE IF autoRevealReady(ps, st) THEN Some(cl.clock + RevealDelay)
    ELSE None

\* setGameState with new players and status, the render and the effect
render(cl, ps, st, changed) ==
    [cl EXCEPT
       !.players = ps,
       !.status = st,
       !.autoRevealTimer = autoRevealEffect(cl, ps, st, changed),
       !.heldSince = IF autoRevealReady(ps, st)
                     THEN (IF cl.heldSince = None THEN Some(cl.clock) ELSE cl.heldSince)
                     ELSE None,
       !.cancelledAt = IF changed /\ cl.autoRevealTimer # None /\ ~autoRevealReady(ps, st)
                       THEN Some(cl.clock) ELSE cl.cancelledAt]

ServerUnchanged ==
    UNCHANGED <<status, players, average, aiSummary, emojiThrows, sessions, timers, now,
                lastEvent>>

\* ws.onmessage case 'JOIN'
ClientJoin(payload) ==
    /\ client' = render(client, clientOnJoin(client.players, payload), client.status, TRUE)
    /\ ServerUnchanged

\* ws.onmessage case 'VOTE': players.map gives a new array whatever the id
ClientVote(id, v) ==
    /\ client' = render(client,
                        [i \in 1..Len(client.players) |->
                           IF client.players[i].id = id
                           THEN [client.players[i] EXCEPT !.vote = v]
                           ELSE client.players[i]],
                        client.status, TRUE)
    /\ ServerUnchanged

\* ws.onmessage case 'REVEAL': status, average and aiSummary of the payload;
\* players keeps its identity
ClientReveal(payload) ==
    /\ client' = [render(client, client.players, REVEALED, client.status # REVEALED)
                    EXCEPT !.average = payload.average, !.aiSummary = payload.aiSummary]
    /\ ServerUnchanged

\* ws.onmessage case 'RESET'
ClientReset ==
    /\ client' = [render(client, clearVotes(client.players), VOTING, TRUE)
                    EXCEPT !.average = None, !.aiSummary = None]
    /\ ServerUnchanged

\* ws.onmessage case 'AI_SUMMARY': aiSummary alone
ClientAiSummary(s) ==
    /\ client' = [client EXCEPT !.aiSummary = Some(s)]
    /\ ServerUnchanged

\* ws.onmessage case 'HIT_PLAYER', both branches; players.map gives a new
\* array
ClientHit(payload) ==
    /\ client' = render(client,
                        [i \in 1..Len(client.players) |->
                           IF client.players[i].id # payload.playerId
                           THEN client.players[i]
                           ELSE IF payload.reset
                           THEN [client.players[i] EXCEPT !.health = 100,
                                                          !.isKnockedOut = FALSE]
                           ELSE LET d == IF payload.damage = None THEN 0
                                         ELSE payload.damage[1]
                                    h == IF client.players[i].health - d > 0
                                         THEN client.players[i].health - d ELSE 0
                                IN [client.players[i] EXCEPT !.health = h,
                                                             !.isKnockedOut = (h = 0)]],
                        client.status, TRUE)
    /\ ServerUnchanged

\* ws.onmessage case 'LEAVE': mark, and setTimeout(..., 3000) for the removal
ClientLeave(id) ==
    /\ Len(client.removals) < MaxTimers
    /\ client' = [render(client,
                         [i \in 1..Len(client.players) |->
                            IF client.players[i].id = id
                            THEN [client.players[i] EXCEPT !.isDisconnected = TRUE]
                            ELSE client.players[i]],
                         client.status, TRUE)
                    EXCEPT !.removals = Append(@, [id |-> id, at |-> client.clock + GraceDelay])]
    /\ ServerUnchanged

\* players.filter(p => p.id !== id)
RECURSIVE filterOut(_, _)
filterOut(ps, id) ==
    IF ps = <<>> THEN <<>>
    ELSE IF Head(ps).id = id THEN filterOut(Tail(ps), id)
    ELSE <<Head(ps)>> \o filterOut(Tail(ps), id)

\* the callback of that setTimeout: filter the player out and, if it was
\* host and somebody remains, promote the first of the rest sorted by joinedAt
ClientRemoval ==
    /\ client.removals # <<>>
    /\ Head(client.removals).at = client.clock
    /\ LET id == Head(client.removals).id
           rest == filterOut(client.players, id)
           oldHost == findIndex(client.players, id) # 0 /\ PlayerOf(client.players, id).isHost
           ps == IF rest # <<>> /\ oldHost
                 THEN [rest EXCEPT ![sortedFirst(rest)].isHost = TRUE] ELSE rest
       IN client' = [render(client, ps, client.status, TRUE)
                       EXCEPT !.removals = Tail(@)]
    /\ ServerUnchanged

\* send(): the message leaves only if the socket is OPEN
send(cl, message) ==
    IF cl.open THEN [cl EXCEPT !.sent = message] ELSE cl

\* a revealVotes that leaves REVEAL to the summary's arrival
revealVotesAfterSummary(cl) ==
    IF findIndex(cl.players, Me) = 0 \/ ~PlayerOf(cl.players, Me).isHost
    THEN cl
    ELSE [cl EXCEPT !.promises = @ + 1, !.revealed = @ + 1]

\* revealVotes: nothing unless I am host; else send REVEAL at once and start
\* generateVoteSummary, whose promise is settled later
revealVotes(cl) ==
    IF findIndex(cl.players, Me) = 0 \/ ~PlayerOf(cl.players, Me).isHost
    THEN cl
    ELSE [send(cl, [type |-> "REVEAL", at |-> cl.clock])
            EXCEPT !.promises = @ + 1, !.revealed = @ + 1]

\* generateVoteSummary never rejects: the summary of the response, a default
\* for an empty one, a placeholder for a failed request
Outcomes == {"summary", "empty", "failed"}
generateVoteSummary(outcome) ==
    CASE outcome = "summary" -> "s1"
      [] outcome = "empty" -> "AI Analysis complete."
      [] outcome = "failed" -> "Could not generate insight."

\* .then(summary => send({type: 'AI_SUMMARY', ...})) of a settled promise
SummarySettles(outcome) ==
    /\ client.promises > 0
    /\ client' = [send(client, [type |-> "AI_SUMMARY", at |-> client.clock,
                                aiSummary |-> generateVoteSummary(outcome)])
                    EXCEPT !.promises = @ - 1,
                           !.answered = IF client.open THEN @ + 1 ELSE @,
                           !.dropped = IF client.open THEN @ ELSE @ + 1]
    /\ ServerUnchanged

SummarySettlesAny == \E outcome \in Outcomes : SummarySettles(outcome)

\* the host presses Reveal
ClickReveal ==
    /\ client.revealed < MaxReveals
    /\ client' = revealVotes(client)
    /\ ServerUnchanged

\* ws.onclose: the socket is gone until the reconnect
SocketCloses ==
    /\ client.open
    /\ client' = [client EXCEPT !.open = FALSE]
    /\ ServerUnchanged

\* the reconnect timeout: connect(), and joinGame when the new socket opens
Reconnects ==
    /\ ~client.open
    /\ client' = [client EXCEPT !.open = TRUE,
                                !.sent = [type |-> "JOIN", at |-> client.clock]]
    /\ ServerUnchanged

\* the callback of the auto-reveal setTimeout, when it is due
AutoRevealFires ==
    /\ client.autoRevealTimer = Some(client.clock)
    /\ client' = revealVotes([client EXCEPT !.autoRevealTimer = None])
    /\ ServerUnchanged

\* a second passes; a callback that is due runs first
Tick ==
    /\ client.clock < MaxClock
    /\ client.autoRevealTimer # Some(client.clock)
    /\ IF client.removals = <<>> THEN TRUE ELSE Head(client.removals).at > client.clock
    /\ client' = [client EXCEPT !.clock = @ + 1]
    /\ ServerUnchanged

----------------------------------------------------------------------------
(* Specifications.  The whole actor with every input set at once is too large
   to enumerate, so each specification takes the handlers and the input sets
   of one part of the protocol; every behaviour of each is a behaviour of the
   actor. *)

\* Membership: connections, JOIN, LEAVE, close, error and the removal timer,
\* two connections and two player ids.
Next ==
    \/ \E c \in Conns : Connect(c)
    \/ \E c \in Conns, player \in JoinPayloads(TwoIds, {None, Some(V5)}), t \in 0..MaxNow :
          Join(c, player, t)
    \/ \E c \in Conns, id \in TwoIds : Leave(c, id)
    \/ \E c \in Conns : Close(c)
    \/ \E c \in Conns : SocketError(c)
    \/ RemovalTimer

Spec == Init /\ [][Next]_vars

\* Host succession: three player ids on one connection.
NextSuccession ==
    \/ \E c \in OneConn : Connect(c)
    \/ \E c \in OneConn, player \in JoinPayloads(Ids, {None}), t \in 0..MaxNow :
          Join(c, player, t)
    \/ \E c \in OneConn, id \in Ids : Leave(c, id)
    \/ \E c \in OneConn : Close(c)
    \/ RemovalTimer

SpecSuccession == Init /\ [][NextSuccession]_vars

\* The voting round: JOIN, VOTE, REVEAL, RESET and AI_SUMMARY.  No player is
\* removed here, so joinedAt is never read and every JOIN reads the same clock
\* value.
NextRound ==
    \/ \E c \in Conns : Connect(c)
    \/ \E c \in Conns, player \in JoinPayloads(TwoIds, {None}) : Join(c, player, now)
    \/ \E c \in Conns, id \in TwoIds, v \in Votes : Vote(c, id, v)
    \/ \E c \in Conns, payload \in RevealPayloads : Reveal(c, payload)
    \/ \E c \in Conns : Reset(c)
    \/ \E c \in Conns, s \in Summaries : AiSummary(c, s)

SpecRound == Init /\ [][NextRound]_vars

\* Every kind of state at once, with small inputs: one connection, players A
\* and B, A voting 5 and B voting 8, A throwing at B, B being hit and reset,
\* LEAVE and the removal timer.
NextFrame ==
    \/ \E c \in OneConn : Connect(c)
    \/ \E c \in OneConn, player \in JoinPayloads(TwoIds, {None}) : Join(c, player, now)
    \/ \E c \in OneConn, v \in {None, Some(V5)} : Vote(c, "A", v)
    \/ \E c \in OneConn, v \in {None, Some(V8)} : Vote(c, "B", v)
    \/ \E c \in OneConn, payload \in [average : {None}, aiSummary : {Some("s1")}] :
          Reveal(c, payload)
    \/ \E c \in OneConn : Reset(c)
    \/ \E c \in OneConn, e \in EmojiThrows({"t1"} \ InFlight, {"A"}, {"B"}, {PoopLiteral}) :
          WithinPoopBound(e, MaxPoop) /\ ThrowEmoji(c, e)
    \/ \E c \in OneConn, payload \in HitPayloads({None, Some("t1")}, {"B"}, {Some(FullDamage)}) :
          HitPlayer(c, payload, now)
    \/ \E c \in OneConn, id \in TwoIds : Leave(c, id)
    \/ RemovalTimer

SpecFrame == Init /\ [][NextFrame]_vars

\* The average as a function of the votes: three joined players, VOTE with
\* any string of RichVotes, and REVEAL.
votedPlayer(id, host, v) ==
    [id |-> id, vote |-> v, isHost |-> host, joinedAt |-> 0, isDisconnected |-> FALSE,
     health |-> 100, isKnockedOut |-> FALSE, poopHitCount |-> 0, isMonkey |-> FALSE,
     lastHitTimestamp |-> None]

InitAverage ==
    /\ status = VOTING
    /\ players = <<votedPlayer("A", TRUE, None), votedPlayer("B", FALSE, None),
                   votedPlayer("C", FALSE, None)>>
    /\ average = None
    /\ aiSummary = None
    /\ emojiThrows = <<>>
    /\ sessions = [c \in OneConn |-> "A"]
    /\ timers = <<>>
    /\ now = 0
    /\ lastEvent = NoEvent
    /\ client = DEFAULT_CLIENT

NextAverage ==
    \/ \E c \in OneConn, id \in Ids, v \in RichVotes : Vote(c, id, v)
    \/ \E c \in OneConn, payload \in RevealPayloads : Reveal(c, payload)

SpecAverage == InitAverage /\ [][NextAverage]_vars

\* The emoji game: A and B have joined; A throws the default weapon at B, and
\* HIT_PLAYER messages for B arrive with or without a throwId, with damage
\* 1 (what removeEmojiThrow sends), FullDamage or a negative damage, or with
\* reset.
MaxHealth == 103
NegativeDamage == -1
Volleyball == <<"U+1F3D0">>

InitHit ==
    /\ status = VOTING
    /\ players = <<votedPlayer("A", TRUE, None), votedPlayer("B", FALSE, None)>>
    /\ average = None
    /\ aiSummary = None
    /\ emojiThrows = <<>>
    /\ sessions = [c \in OneConn |-> "A"]
    /\ timers = <<>>
    /\ now = 0
    /\ lastEvent = NoEvent
    /\ client = DEFAULT_CLIENT

\* the health the damage branch would write stays within the model's range
WithinHealthBound(payload) ==
    IF payload.reset \/ payload.damage = None \/ findIndex(players, payload.playerId) = 0
    THEN TRUE
    ELSE PlayerOf(players, payload.playerId).health - payload.damage[1] <= MaxHealth

NextHit ==
    \/ \E c \in OneConn, e \in EmojiThrows({"t1", "t2"} \ InFlight, {"A"}, {"B"}, {Volleyball}) :
          ThrowEmoji(c, e)
    \/ \E c \in OneConn,
          payload \in HitPayloads({None, Some("t1"), Some("t2")}, {"B"},
                                 {None, Some(1), Some(FullDamage), Some(NegativeDamage)}) :
          WithinHealthBound(payload) /\ HitPlayer(c, payload, now)

SpecHit == InitHit /\ [][NextHit]_vars

\* The monkey counter: A (host) and B have joined; A throws at B the pile of
\* poo of the weapon list, the string the actor compares with, or a
\* volleyball; the throw is acknowledged with a knockout hit, B is reset; A
\* votes, reveals and resets the round.
MaxMonkeyPoop == 6

Poop == <<"U+1F4A9">>

NextMonkey ==
    \/ \E c \in OneConn,
          e \in EmojiThrows({"t1"} \ InFlight, {"A"}, {"B"}, {Poop, PoopLiteral, Volleyball}) :
          WithinPoopBound(e, MaxMonkeyPoop) /\ ThrowEmoji(c, e)
    \/ \E c \in OneConn,
          payload \in [throwId : {Some("t1")}, playerId : {"B"}, damage : {Some(FullDamage)},
                       reset : {FALSE}] \cup
                      [throwId : {None}, playerId : {"B"}, damage : {None}, reset : {TRUE}] :
          HitPlayer(c, payload, now)
    \/ \E c \in OneConn, v \in {None, Some(V5)} : Vote(c, "A", v)
    \/ \E c \in OneConn, payload \in [average : {None}, aiSummary : {None}] :
          Reveal(c, payload)
    \/ \E c \in OneConn : Reset(c)

SpecMonkey == InitHit /\ [][NextMonkey]_vars

\* Healing: B throws the string the actor counts at A and so becomes a
\* monkey; A throws hearts at B; the client that animated a throw
\* acknowledges it with HIT_PLAYER{throwId, playerId, damage: 1}.
MaxHearts == 6

Heart == <<"U+2764", "U+FE0F">>

\* const damage = 1 of removeEmojiThrow
HitDamage == 1

\* p.heartHitCount || 0: the field is optional and no JOIN payload carries it
heartHitCountOf(p) == IF "heartHitCount" \in DOMAIN p THEN p.heartHitCount ELSE 0

\* the emoji of the throw in flight with this id (None if there is none)
emojiOfThrow(throwId) ==
    IF \E k \in 1..Len(emojiThrows) : emojiThrows[k].id = throwId
    THEN Some(emojiThrows[CHOOSE k \in 1..Len(emojiThrows) : emojiThrows[k].id = throwId].emoji)
    ELSE None

\* removeEmojiThrow: the acknowledgment of the throw in flight with this id;
\* its emoji and timestamp fields, which the actor does not read, are left out
\* (the emoji is that of the throw, see emojiOfThrow)
removeEmojiThrow(throwId, targetPlayerId) ==
    [throwId |-> Some(throwId), playerId |-> targetPlayerId, damage |-> Some(HitDamage),
     reset |-> FALSE]

NextHeal ==
    \/ \E c \in OneConn, e \in EmojiThrows({"t1"} \ InFlight, {"B"}, {"A"}, {PoopLiteral}) :
          WithinPoopBound(e, MaxMonkeyPoop) /\ ThrowEmoji(c, e)
    \/ \E c \in OneConn, e \in EmojiThrows({"t2"} \ InFlight, {"A"}, {"B"}, {Heart}) :
          PlayerOf(players, "B").health > 100 - MaxHearts /\ ThrowEmoji(c, e)
    \/ \E c \in OneConn, k \in 1..Len(emojiThrows) :
          HitPlayer(c, removeEmojiThrow(emojiThrows[k].id, emojiThrows[k].toPlayerId), now)

SpecHeal == InitHit /\ [][NextHeal]_vars

\* Votes: A and B have joined; VOTE for A, B and the unknown id C with any
\* string of RichVotes, REVEAL and RESET.
NextVote ==
    \/ \E c \in OneConn, id \in Ids, v \in RichVotes : Vote(c, id, v)
    \/ \E c \in OneConn, payload \in [average : {None}, aiSummary : {Some("s1")}] :
          Reveal(c, payload)
    \/ \E c \in OneConn : Reset(c)

SpecVote == InitHit /\ [][NextVote]_vars

\* Joining: connections, JOIN messages whose Player object carries a vote or
\* not, VOTE and LEAVE.
NextJoin ==
    \/ \E c \in Conns : Connect(c)
    \/ \E c \in Conns, player \in JoinPayloads(TwoIds, {None, Some(V5)}) :
          Join(c, player, now)
    \/ \E c \in Conns, id \in TwoIds, v \in {None, Some(V8)} : Vote(c, id, v)
    \/ \E c \in Conns, id \in TwoIds : Leave(c, id)

SpecJoin == Init /\ [][NextJoin]_vars

\* Delivery failures: connections, JOIN, close, and VOTE broadcasts during
\* which the send to some of the connections fails.
sendToClient(event, broken) ==
    [type |-> event.type, from |-> event.from, to |-> event.to \ broken,
     payload |-> event.payload, failed |-> event.to \cap broken]

\* case 'VOTE' while websocket.send throws, or readyState is not OPEN, for the
\* connections in broken
VoteWithFailures(c, id, v, broken) ==
    /\ c \in DOMAIN sessions
    /\ broken \subseteq DOMAIN sessions
    /\ findIndex(players, id) # 0
    /\ players' = setVote(players, findIndex(players, id), v)
    /\ lastEvent' = sendToClient(broadcast(c, "VOTE", [id |-> id, vote |-> v]), broken)
    /\ UNCHANGED <<client, status, average, aiSummary, sessions, timers, now, emojiThrows>>

NextDelivery ==
    \/ \E c \in Conns : Connect(c)
    \/ \E c \in Conns, player \in JoinPayloads(TwoIds, {None}) : Join(c, player, now)
    \/ \E c \in Conns, id \in TwoIds, v \in {None, Some(V5)}, broken \in SUBSET Conns :
          VoteWithFailures(c, id, v, broken)
    \/ \E c \in Conns : Close(c)

SpecDelivery == Init /\ [][NextDelivery]_vars

\* Knockout recovery.  A (on c1) and B (on c2) have joined and each has a hook
\* that animates the throws and keeps its own copy of B's health.  A throws
\* volleyballs at B; every hook whose animation of the throw ends
\* acknowledges it with HIT_PLAYER and, if its own copy says the hit knocks B
\* out, starts the timer of the reset; the actor's HIT_PLAYER broadcasts reach
\* the hooks later, one by one.  A THROW_EMOJI broadcast is taken to reach
\* both hooks at once.
MaxInbox == 2

MaxRecoveries == 2

\* setTimeout(..., 3000) of removeEmojiThrow, in seconds
RecoveryDelay == 3

\* per connection: the hook's copy of B's health, the throws it animates,
\* the HIT_PLAYER broadcasts it has not handled yet; and the reset timers
RecoveryClient ==
    [seen |-> [c \in Conns |-> 100], animating |-> [c \in Conns |-> {}],
     inbox |-> [c \in Conns |-> <<>>], recoveries |-> <<>>] @@ DEFAULT_CLIENT

InitRecovery ==
    /\ status = VOTING
    /\ players = <<votedPlayer("A", TRUE, None), votedPlayer("B", FALSE, None)>>
    /\ average = None
    /\ aiSummary = None
    /\ emojiThrows = <<>>
    /\ sessions = [c \in Conns |-> myId(c)]
    /\ timers = <<>>
    /\ now = 0
    /\ lastEvent = NoEvent
    /\ client = RecoveryClient

\* the message of the reset timer
resetPayload(playerId) ==
    [throwId |-> None, playerId |-> playerId, damage |-> None, reset |-> TRUE]

\* broadcast of a HIT_PLAYER: one more message on the way to every session
deliverAll(cl, payload) ==
    [cl EXCEPT !.inbox = [c \in Conns |-> IF c \in DOMAIN sessions
                                          THEN Append(cl.inbox[c], payload)
                                          ELSE cl.inbox[c]]]

HasRoom == \A c \in Conns : Len(client.inbox[c]) < MaxInbox

\* throwEmoji of A's hook; the id is used again only when the earlier throw
\* is over on every hook
RecoveryThrow ==
    /\ \A c \in Conns : "t1" \notin client.animating[c] /\ client.inbox[c] = <<>>
    /\ \E e \in EmojiThrows({"t1"} \ InFlight, {"A"}, {"B"}, {Volleyball}) :
         handleThrowEmoji("c1", e)
    /\ client' = [client EXCEPT !.animating = [c \in Conns |-> {"t1"}]]

\* the animation of the throw ends on the hook of c: removeEmojiThrow, and
\* the actor's handling of its HIT_PLAYER
onEmojiThrowComplete(c) ==
    /\ "t1" \in client.animating[c]
    /\ HasRoom
    /\ Len(client.recoveries) < MaxRecoveries
    /\ handleHitPlayer(c, removeEmojiThrow("t1", "B"), now)
    /\ client' = [deliverAll(client, removeEmojiThrow("t1", "B")) EXCEPT
                    !.animating[c] = @ \ {"t1"},
                    !.recoveries = IF client.seen[c] - HitDamage <= 0
                                   THEN Append(@, [conn |-> c, left |-> RecoveryDelay])
                                   ELSE @]

\* ws.onmessage case 'HIT_PLAYER' on the hook of c
clientOnHit(c) ==
    /\ client.inbox[c] # <<>>
    /\ LET m == Head(client.inbox[c])
           d == IF m.damage = None THEN 0 ELSE m.damage[1] IN
         client' = [client EXCEPT
                      !.inbox[c] = Tail(@),
                      !.seen[c] = IF m.reset THEN 100
                                  ELSE IF @ - d > 0 THEN @ - d ELSE 0,
                      !.animating[c] = IF m.reset \/ m.throwId = None THEN @
                                       ELSE @ \ {m.throwId[1]}]
    /\ ServerUnchanged

\* the reset timer fires: HIT_PLAYER{playerId, reset: true}
RecoveryFires ==
    /\ client.recoveries # <<>>
    /\ HasRoom
    /\ IF client.recoveries = <<>> THEN FALSE
       ELSE /\ Head(client.recoveries).left = 0
            /\ handleHitPlayer(Head(client.recoveries).conn, resetPayload("B"), now)
    /\ client' = [deliverAll(client, resetPayload("B")) EXCEPT !.recoveries = Tail(@)]

\* a second passes
RecoveryTick ==
    /\ client.recoveries # <<>>
    /\ \A k \in 1..Len(client.recoveries) : client.recoveries[k].left > 0
    /\ client' = [client EXCEPT
                    !.recoveries = [k \in 1..Len(@) |-> [@[k] EXCEPT !.left = @ - 1]]]
    /\ ServerUnchanged

AnimationEnds == \E c \in Conns : onEmojiThrowComplete(c)

HitArrives == \E c \in Conns : clientOnHit(c)

NextRecovery ==
    \/ RecoveryThrow
    \/ AnimationEnds
    \/ HitArrives
    \/ RecoveryFires
    \/ RecoveryTick

\* animations end, broadcasts arrive, timers fire and time passes
SpecRecovery ==
    /\ InitRecovery /\ [][NextRecovery]_vars
    /\ WF_vars(AnimationEnds) /\ WF_vars(HitArrives)
    /\ WF_vars(RecoveryFires) /\ WF_vars(RecoveryTick)

\* Order of delivery.  A (on c1) and B (on c2) have joined.  handleMessage has
\* no await and the timer callback is synchronous, so each of them runs to
\* its end, broadcast included, before the next message or timer is taken
\* up; websocket.send queues the event behind those sent earlier on the same
\* socket.  wire[c] is what was sent on c, applied is the sequence of the
\* events in the order in which the actor made the changes they report.
MaxLog == 3

OrderClient ==
    [wire |-> [c \in Conns |-> <<>>], applied |-> <<>>] @@ DEFAULT_CLIENT

InitOrder ==
    /\ status = VOTING
    /\ players = <<votedPlayer("A", TRUE, None), votedPlayer("B", FALSE, None)>>
    /\ average = None
    /\ aiSummary = None
    /\ emojiThrows = <<>>
    /\ sessions = [c \in Conns |-> myId(c)]
    /\ timers = <<>>
    /\ now = 0
    /\ lastEvent = NoEvent
    /\ client = OrderClient

\* for comparison: the event overtakes the one sent before it
websocketSendOvertaking(buffer, event) ==
    IF buffer = <<>> THEN <<event>>
    ELSE SubSeq(buffer, 1, Len(buffer) - 1) \o <<event, buffer[Len(buffer)]>>

\* websocket.send(JSON.stringify(message)) on one socket
websocketSend(buffer, event) == Append(buffer, event)

\* what a handler that ended with this event has put on the sockets
sent(cl, event) ==
    IF event.type = "NONE" THEN cl
    ELSE [cl EXCEPT !.applied = Append(@, event),
                    !.wire = [c \in Conns |-> IF c \in event.to
                                              THEN websocketSend(cl.wire[c], event)
                                              ELSE cl.wire[c]]]

HasLogRoom == Len(client.applied) < MaxLog

NextOrder ==
    \/ \E c \in Conns, v \in {None, Some(V5)} :
          HasLogRoom /\ handleVote(c, myId(c), v) /\ client' = sent(client, lastEvent')
    \/ \E c \in Conns, e \in EmojiThrows({"t1"} \ InFlight, {"A"}, {"B"}, {Volleyball}) :
          HasLogRoom /\ handleThrowEmoji(c, e) /\ client' = sent(client, lastEvent')
    \/ \E c \in Conns, k \in 1..Len(emojiThrows) :
          /\ HasLogRoom
          /\ handleHitPlayer(c, removeEmojiThrow(emojiThrows[k].id, emojiThrows[k].toPlayerId),
                             now)
          /\ client' = sent(client, lastEvent')
    \/ \E c \in Conns :
          HasLogRoom /\ handleLeave(c, "B") /\ client' = sent(client, lastEvent')
    \/ HasLogRoom /\ removalCallback /\ client' = sent(client, lastEvent')

SpecOrder == InitOrder /\ [][NextOrder]_vars

\* The grace period.  A (on c1) and B (on c2) have joined; B's client sends
\* LEAVE and JOIN again and again while seconds pass, and each removal timer
\* fires RemovalDelay seconds after the LEAVE that set it.  due holds the
\* times at which the entries of timers fire, since the time at which B was
\* last marked disconnected while connected.
MaxGraceClock == 6

\* setTimeout(..., 3000) of handlePlayerLeave, in seconds
RemovalDelay == 3

GraceClient == [due |-> <<>>, since |-> None] @@ DEFAULT_CLIENT

InitGrace ==
    /\ status = VOTING
    /\ players = <<votedPlayer("A", TRUE, None), votedPlayer("B", FALSE, None)>>
    /\ average = None
    /\ aiSummary = None
    /\ emojiThrows = <<>>
    /\ sessions = [c \in Conns |-> myId(c)]
    /\ timers = <<>>
    /\ now = 0
    /\ lastEvent = NoEvent
    /\ client = GraceClient

GraceLeave ==
    /\ findIndex(players, "B") # 0
    /\ handleLeave("c2", "B")
    /\ client' = [client EXCEPT
                    !.due = Append(@, client.clock + RemovalDelay),
                    !.since = IF PlayerOf(players, "B").isDisconnected THEN @
                              ELSE Some(client.clock)]

GraceJoin ==
    /\ findIndex(players, "B") # 0
    /\ \E player \in JoinPayloads({"B"}, {None}) : handleJoin("c2", player, now)
    /\ client' = [client EXCEPT !.since = None]

GraceFires ==
    /\ IF client.due = <<>> THEN FALSE ELSE Head(client.due) = client.clock
    /\ removalCallback
    /\ client' = [client EXCEPT !.due = Tail(@)]

GraceTick ==
    /\ client.clock < MaxGraceClock
    /\ IF client.due = <<>> THEN TRUE ELSE Head(client.due) > client.clock
    /\ client' = [client EXCEPT !.clock = @ + 1]
    /\ ServerUnchanged

NextGrace ==
    \/ GraceLeave
    \/ GraceJoin
    \/ GraceFires
    \/ GraceTick

SpecGrace == InitGrace /\ [][NextGrace]_vars

\* Throws in flight.  A (on c1) and B (on c2) have joined; A throws t1 at B
\* and t2 at C, who is no player; B's client sends LEAVE and the removal timer
\* runs.  The table draws a throw, and so reports the end of its flight,
\* only while both its fromPlayerId and its toPlayerId are players; the hooks'
\* copies of players and emojiThrows are taken to be the actor's.  A throw
\* that is drawn does land, and a timer that is set does fire.
rendered(throw) ==
    findIndex(players, throw.fromPlayerId) # 0 /\ findIndex(players, throw.toPlayerId) # 0

ThrowLands ==
    \E c \in DOMAIN sessions, k \in 1..Len(emojiThrows) :
        /\ rendered(emojiThrows[k])
        /\ HitPlayer(c, removeEmojiThrow(emojiThrows[k].id, emojiThrows[k].toPlayerId), now)

NextFlight ==
    \/ \E e \in EmojiThrows({"t1"} \ InFlight, {"A"}, {"B"}, {Volleyball}) :
          rendered(e) /\ ThrowEmoji("c1", e)
    \/ \E e \in EmojiThrows({"t2"} \ InFlight, {"A"}, {"C"}, {Volleyball}) : ThrowEmoji("c1", e)
    \/ findIndex(players, "B") # 0 /\ Leave("c2", "B")
    \/ ThrowLands
    \/ RemovalTimer

SpecFlight ==
    InitOrder /\ [][NextFlight]_vars /\ WF_vars(ThrowLands) /\ WF_vars(RemovalTimer)

\* The BroadcastChannel variant of the session service (mockSocketService).
\* Two browser tabs: x has opened session X and y has opened session Y.  Every
\* hook constructs new BroadcastChannel(CHANNEL_NAME), so the tabs of all
\* sessions are on one channel; localStorage is shared by the tabs and keyed by
\* session id.  The actor takes no part.  No player's health reaches 0 within
\* MaxPosted messages, so the reset timer of removeEmojiThrow is never set.
MaxPosted == 4

Tabs == {"x", "y"}
SessionIds == {"X", "Y"}

\* the sessionId argument of the tab's useGameSession
sessionIdOf(t) == IF t = "x" THEN "X" ELSE "Y"

\* the myId the tab's hook drew with Math.random
tabId(t) == IF t = "x" THEN "A" ELSE "B"

DEFAULT_STATE(sessionId) ==
    [sessionId |-> sessionId, status |-> VOTING, players |-> <<>>, average |-> None,
     aiSummary |-> None, emojiThrows |-> <<>>]

\* localStorage.getItem(`poker_session_${sessionId}`), without the players
\* marked disconnected
getSessionState(storage, sessionId) ==
    IF storage[sessionId] = None THEN DEFAULT_STATE(sessionId)
    ELSE LET state == storage[sessionId][1]
         IN [state EXCEPT !.players = SelectSeq(@, LAMBDA p : ~p.isDisconnected)]

\* localStorage.setItem(`poker_session_${state.sessionId}`, ...)
saveSessionState(storage, state) == [storage EXCEPT ![state.sessionId] = Some(state)]

\* setGameState(prev => { newState = updater(prev); saveSessionState(newState) })
updateGameState(cl, t, newState) ==
    [cl EXCEPT !.tabs = [@ EXCEPT ![t] = newState],
               !.storage = saveSessionState(@, newState)]

\* channel.postMessage(msg): every other open channel object of that name
\* gets the message.  from is the posting tab; no handler reads it.
postMessage(cl, t, type, payload) ==
    LET msg == [type |-> type, payload |-> payload, from |-> t]
    IN [cl EXCEPT !.inbox = [u \in Tabs |-> IF u # t /\ u \in cl.mounted
                                            THEN Append(cl.inbox[u], msg)
                                            ELSE cl.inbox[u]],
                  !.posted = @ + 1]

ChannelClient ==
    [tabs |-> [t \in Tabs |-> DEFAULT_STATE("")],
     storage |-> [sid \in SessionIds |-> None],
     inbox |-> [t \in Tabs |-> <<>>],
     mounted |-> {},
     leaving |-> <<>>,
     summaries |-> [t \in Tabs |-> <<>>],
     posted |-> 0] @@ DEFAULT_CLIENT

InitChannel ==
    /\ status = VOTING
    /\ players = <<>>
    /\ average = None
    /\ aiSummary = None
    /\ emojiThrows = <<>>
    /\ sessions = [c \in {} |-> ""]
    /\ timers = <<>>
    /\ now = 0
    /\ lastEvent = NoEvent
    /\ client = ChannelClient

CanPost == client.posted < MaxPosted

\* the newPlayer of joinGame
tabPlayer(id, shouldHost) ==
    [id |-> id, isHost |-> shouldHost, vote |-> None, joinedAt |-> ClientTime,
     isDisconnected |-> FALSE, health |-> 100, isKnockedOut |-> FALSE, poopHitCount |-> 0,
     isMonkey |-> FALSE]

\* joinGame: a tab that is in its players already saves and posts nothing
joinGame(cl, t) ==
    LET prev == cl.tabs[t] IN
      IF findIndex(prev.players, tabId(t)) # 0 THEN updateGameState(cl, t, prev)
      ELSE LET player == tabPlayer(tabId(t), Len(prev.players) = 0)
           IN postMessage(updateGameState(cl, t, [prev EXCEPT !.players = Append(@, player)]),
                          t, "JOIN", player)

\* the hook is mounted: useState(() => getSessionState(sessionId)), then the
\* effect that sets channel.onmessage and calls joinGame
openTab(t) ==
    /\ t \notin client.mounted
    /\ LET opened == [client EXCEPT
                        !.tabs = [@ EXCEPT ![t] = getSessionState(client.storage,
                                                                  sessionIdOf(t))],
                        !.mounted = @ \cup {t}]
       IN client' = joinGame(opened, t)
    /\ ServerUnchanged

\* vote(card)
tabVote(t, card) ==
    /\ t \in client.mounted
    /\ LET voteValue == IF card = VEmpty THEN None ELSE Some(card)
           prev == client.tabs[t]
           updatedPlayers == [i \in 1..Len(prev.players) |->
                                IF prev.players[i].id = tabId(t)
                                THEN [prev.players[i] EXCEPT !.vote = voteValue]
                                ELSE prev.players[i]]
       IN client' = postMessage(updateGameState(client, t,
                                                [prev EXCEPT !.players = updatedPlayers]),
                                t, "VOTE", [id |-> tabId(t), vote |-> voteValue])
    /\ ServerUnchanged

\* me?.isHost over getSessionState(sessionId)
isStoredHost(cl, t) ==
    LET currentState == getSessionState(cl.storage, sessionIdOf(t))
        i == findIndex(currentState.players, tabId(t))
    IN IF i = 0 THEN FALSE ELSE currentState.players[i].isHost

\* revealVotes up to the call of generateVoteSummary
tabRevealVotes(t) ==
    /\ t \in client.mounted
    /\ IF ~isStoredHost(client, t) THEN UNCHANGED client
       ELSE LET currentState == getSessionState(client.storage, sessionIdOf(t))
                avg == Some(computeAverage(currentState.players))
                prev == client.tabs[t]
                revealed == [prev EXCEPT !.status = REVEALED, !.average = avg,
                                         !.aiSummary = None]
                posted == postMessage(updateGameState(client, t, revealed), t, "REVEAL",
                                      [status |-> REVEALED, average |-> avg,
                                       aiSummary |-> None])
            IN client' = [posted EXCEPT !.summaries = [@ EXCEPT ![t] = Append(@, avg)]]
    /\ ServerUnchanged

\* generateVoteSummary(rawVotes).then(...), or .catch(...) if it has failed
summaryArrives(t, failed) ==
    /\ t \in client.mounted
    /\ client.summaries[t] # <<>>
    /\ LET avg == Head(client.summaries[t])
           taken == [client EXCEPT !.summaries = [@ EXCEPT ![t] = Tail(@)]]
           prev == client.tabs[t]
       IN IF failed THEN client' = taken
          ELSE client' = postMessage(updateGameState(taken, t,
                                                     [prev EXCEPT !.aiSummary = Some("s1")]),
                                     t, "REVEAL",
                                     [status |-> REVEALED, average |-> avg,
                                      aiSummary |-> Some("s1")])
    /\ ServerUnchanged

\* status VOTING, average and aiSummary null, every vote null
resetState(prev) ==
    [prev EXCEPT !.status = VOTING, !.average = None, !.aiSummary = None,
                 !.players = clearVotes(@)]

\* resetRound
tabResetRound(t) ==
    /\ t \in client.mounted
    /\ IF ~isStoredHost(client, t) THEN UNCHANGED client
       ELSE client' = postMessage(updateGameState(client, t, resetState(client.tabs[t])),
                                  t, "RESET", None)
    /\ ServerUnchanged

\* the thrower of a poop counts it and is a monkey from the fifth on
countThrow(prev, emojiThrow) ==
    [prev EXCEPT
       !.emojiThrows = Append(@, emojiThrow),
       !.players = IF emojiThrow.emoji # Poop THEN @
                   ELSE [i \in 1..Len(@) |->
                           IF @[i].id = emojiThrow.fromPlayerId
                           THEN [@[i] EXCEPT
                                   !.poopHitCount = @ + 1,
                                   !.isMonkey = (prev.players[i].poopHitCount + 1 >= 5) \/ @]
                           ELSE @[i]]]

\* ids of the throws some tab holds; throwEmoji draws a fresh random id
HeldThrows ==
    UNION {{client.tabs[t].emojiThrows[k].id : k \in 1..Len(client.tabs[t].emojiThrows)} :
             t \in Tabs}

\* throwEmoji(targetPlayerId)
tabThrowEmoji(t, emojiThrow) ==
    /\ t \in client.mounted
    /\ emojiThrow.fromPlayerId = tabId(t)
    /\ client' = postMessage(updateGameState(client, t, countThrow(client.tabs[t], emojiThrow)),
                             t, "THROW_EMOJI", emojiThrow)
    /\ ServerUnchanged

\* hearts heal, others damage; five hearts turn a monkey back
hitPlayer(p, emoji, damage, timestamp) ==
    LET isHeart == emoji = Heart
        newHealth == IF isHeart
                     THEN (IF p.health + damage > 100 THEN 100 ELSE p.health + damage)
                     ELSE (IF p.health - damage < 0 THEN 0 ELSE p.health - damage)
        newHeartCount == IF isHeart /\ p.isMonkey THEN heartHitCountOf(p) + 1
                         ELSE heartHitCountOf(p)
        shouldRevert == newHeartCount >= 5
    IN [health |-> newHealth,
        isKnockedOut |-> ~isHeart /\ newHealth = 0,
        lastHitTimestamp |-> timestamp,
        heartHitCount |-> IF shouldRevert THEN 0 ELSE newHeartCount,
        isMonkey |-> IF shouldRevert THEN FALSE ELSE p.isMonkey,
        poopHitCount |-> IF shouldRevert THEN 0 ELSE p.poopHitCount] @@ p

hitPlayers(ps, id, emoji, damage, timestamp) ==
    [i \in 1..Len(ps) |-> IF ps[i].id = id THEN hitPlayer(ps[i], emoji, damage, timestamp)
                          ELSE ps[i]]

withoutThrow(ets, throwId) == SelectSeq(ets, LAMBDA e : e.id # throwId)

\* removeEmojiThrow(throwId): the throw is looked up in localStorage
tabRemoveEmojiThrow(t, throwId) ==
    /\ t \in client.mounted
    /\ LET currentState == getSessionState(client.storage, sessionIdOf(t))
           found == SelectSeq(currentState.emojiThrows, LAMBDA e : e.id = throwId)
           prev == client.tabs[t]
       IN IF found = <<>>
          THEN client' = updateGameState(client, t,
                             [prev EXCEPT !.emojiThrows = withoutThrow(@, throwId)])
          ELSE LET throwData == found[1]
               IN client' = postMessage(
                      updateGameState(client, t,
                          [prev EXCEPT
                             !.players = hitPlayers(@, throwData.toPlayerId, throwData.emoji,
                                                    HitDamage, ClientTime),
                             !.emojiThrows = withoutThrow(@, throwId)]),
                      t, "HIT_PLAYER",
                      [playerId |-> throwData.toPlayerId, damage |-> HitDamage,
                       timestamp |-> ClientTime, emoji |-> throwData.emoji, reset |-> FALSE])
    /\ ServerUnchanged

\* handleBeforeUnload: the tab posts LEAVE and is gone, its timers with it
beforeUnload(t) ==
    /\ t \in client.mounted
    /\ LET posted == postMessage(client, t, "LEAVE", [id |-> tabId(t)])
       IN client' = [posted EXCEPT
                       !.mounted = @ \ {t},
                       !.tabs = [@ EXCEPT ![t] = DEFAULT_STATE("")],
                       !.inbox = [@ EXCEPT ![t] = <<>>],
                       !.summaries = [@ EXCEPT ![t] = <<>>],
                       !.leaving = SelectSeq(@, LAMBDA l : l.tab # t)]
    /\ ServerUnchanged

\* the updater handleMessage passes to updateGameState for this message
applyMessage(prev, msg) ==
    LET payload == msg.payload IN
    CASE msg.type = "JOIN" ->
           IF findIndex(prev.players, payload.id) # 0 THEN prev
           ELSE [prev EXCEPT !.players = Append(@, payload)]
      [] msg.type = "VOTE" ->
           [prev EXCEPT !.players = [i \in 1..Len(@) |->
                                       IF @[i].id = payload.id
                                       THEN [@[i] EXCEPT !.vote = payload.vote]
                                       ELSE @[i]]]
      [] msg.type = "REVEAL" ->
           [prev EXCEPT !.status = REVEALED, !.average = payload.average,
                        !.aiSummary = payload.aiSummary]
      [] msg.type = "RESET" -> resetState(prev)
      [] msg.type = "LEAVE" ->
           [prev EXCEPT !.players = [i \in 1..Len(@) |->
                                       IF @[i].id = payload.id
                                       THEN [@[i] EXCEPT !.isDisconnected = TRUE]
                                       ELSE @[i]]]
      [] msg.type = "THROW_EMOJI" -> countThrow(prev, payload)
      [] msg.type = "HIT_PLAYER" ->
           IF payload.reset
           THEN [prev EXCEPT !.players = [i \in 1..Len(@) |->
                                            IF @[i].id = payload.playerId
                                            THEN [@[i] EXCEPT !.health = 100,
                                                              !.isKnockedOut = FALSE]
                                            ELSE @[i]]]
           ELSE [prev EXCEPT !.players = hitPlayers(@, payload.playerId, payload.emoji,
                                                    payload.damage, payload.timestamp)]

\* channel.onmessage = handleMessage: the tab takes its next message, whatever
\* tab posted it; a LEAVE also sets the timer of the removal
handleMessage(t) ==
    /\ t \in client.mounted
    /\ client.inbox[t] # <<>>
    /\ LET msg == Head(client.inbox[t])
           taken == [client EXCEPT !.inbox = [@ EXCEPT ![t] = Tail(@)]]
           applied == updateGameState(taken, t, applyMessage(client.tabs[t], msg))
       IN client' = IF msg.type = "LEAVE"
                    THEN [applied EXCEPT
                            !.leaving = Append(@, [tab |-> t, id |-> msg.payload.id])]
                    ELSE applied
    /\ ServerUnchanged

\* the setTimeout(..., 3000) callback of case 'LEAVE': the player is removed
\* and, if it was the host, the earliest of the remaining is promoted
removePlayer(prev, id) ==
    LET remainingPlayers == SelectSeq(prev.players, LAMBDA p : p.id # id)
        i == findIndex(prev.players, id)
        oldHost == IF i = 0 THEN FALSE ELSE prev.players[i].isHost
    IN [prev EXCEPT !.players = IF Len(remainingPlayers) > 0 /\ oldHost
                                THEN [remainingPlayers EXCEPT
                                        ![sortedFirst(remainingPlayers)].isHost = TRUE]
                                ELSE remainingPlayers]

\* the earliest timer of the tab fires
leaveCallback(t) ==
    /\ \E k \in 1..Len(client.leaving) :
          /\ client.leaving[k].tab = t
          /\ \A j \in 1..(k-1) : client.leaving[j].tab # t
          /\ LET fired == [client EXCEPT !.leaving = splice(@, k)]
             IN client' = updateGameState(fired, t,
                                          removePlayer(client.tabs[t], client.leaving[k].id))
    /\ ServerUnchanged

NextChannel ==
    \/ \E t \in Tabs : CanPost /\ openTab(t)
    \/ \E t \in Tabs, card \in {VEmpty, V5} : CanPost /\ tabVote(t, card)
    \/ \E t \in Tabs : CanPost /\ tabRevealVotes(t)
    \/ \E t \in Tabs, failed \in BOOLEAN : CanPost /\ summaryArrives(t, failed)
    \/ \E t \in Tabs : CanPost /\ tabResetRound(t)
    \/ \E t \in Tabs,
          e \in EmojiThrows({"t1"} \ HeldThrows, {"A", "B"}, {"A", "B"}, {Volleyball, Poop}) :
          CanPost /\ tabThrowEmoji(t, e)
    \/ \E t \in Tabs, throwId \in {"t1"} : CanPost /\ tabRemoveEmojiThrow(t, throwId)
    \/ \E t \in Tabs : CanPost /\ beforeUnload(t)
    \/ \E t \in Tabs : handleMessage(t)
    \/ \E t \in Tabs : leaveCallback(t)

SpecChannel == InitChannel /\ [][NextChannel]_vars

\* Messages the actor fails on, next to JOIN, VOTE and REVEAL: a message that
\* is not JSON, and REVEAL and THROW_EMOJI messages that carry no payload.
NextError ==
    \/ \E c \in Conns : Connect(c)
    \/ \E c \in Conns, player \in JoinPayloads(TwoIds, {None}) : Join(c, player, now)
    \/ \E c \in Conns, id \in TwoIds, v \in {None, Some(V5)} : Vote(c, id, v)
    \/ \E c \in Conns, payload \in RevealPayloads : Reveal(c, payload)
    \/ \E c \in Conns : InvalidJson(c)
    \/ \E c \in Conns : RevealWithoutPayload(c)
    \/ \E c \in Conns : ThrowEmojiWithoutPayload(c)

SpecError == Init /\ [][NextError]_vars

\* Auto-reveal in the host's browser.  The hook of A holds A (host) and B;
\* broadcasts arrive in any order: VOTE of A and of B, JOIN of A (host or
\* not), of B and of a third player C who has not voted, HIT_PLAYER on B,
\* LEAVE of B, REVEAL and RESET; seconds pass.  The actor is not part of
\* this specification.
InitAutoReveal ==
    /\ status = VOTING
    /\ players = <<>>
    /\ average = None
    /\ aiSummary = None
    /\ emojiThrows = <<>>
    /\ sessions = [c \in {} |-> ""]
    /\ timers = <<>>
    /\ now = 0
    /\ lastEvent = NoEvent
    /\ client = [DEFAULT_CLIENT EXCEPT
                   !.players = <<CHOOSE p \in ClientPlayers({"A"}, {TRUE}, {None}) : TRUE,
                                 CHOOSE p \in ClientPlayers({"B"}, {FALSE}, {None}) : TRUE>>]

NextAutoReveal ==
    \/ \E v \in {None, Some(V5)} : ClientVote("A", v)
    \/ \E v \in {None, Some(V8)} : ClientVote("B", v)
    \/ \E payload \in ClientPlayers({"A"}, BOOLEAN, {None})
                       \cup ClientPlayers({"B", "C"}, {FALSE}, {None}) : ClientJoin(payload)
    \/ \E payload \in HitPayloads({None}, {"B"}, {Some(FullDamage)}) : ClientHit(payload)
    \/ ClientLeave("B")
    \/ ClientRemoval
    \/ \E payload \in [average : {Some(650)}, aiSummary : {None}] : ClientReveal(payload)
    \/ ClientReset
    \/ AutoRevealFires
    \/ Tick

SpecAutoReveal == InitAutoReveal /\ [][NextAutoReveal]_vars

\* The summary: the host's hook reveals by hand, its generateVoteSummary
\* promises settle, its socket closes and reconnects, and it applies REVEAL,
\* AI_SUMMARY and RESET broadcasts; the actor handles REVEAL and AI_SUMMARY
\* messages.  A promise that is pending does settle (a request ends or times
\* out).
InitSummary ==
    /\ status = VOTING
    /\ players = <<votedPlayer("A", TRUE, Some(V5)), votedPlayer("B", FALSE, Some(V8))>>
    /\ average = None
    /\ aiSummary = None
    /\ emojiThrows = <<>>
    /\ sessions = [c \in OneConn |-> "A"]
    /\ timers = <<>>
    /\ now = 0
    /\ lastEvent = NoEvent
    /\ client = [DEFAULT_CLIENT EXCEPT
                   !.players = <<CHOOSE p \in ClientPlayers({"A"}, {TRUE}, {Some(V5)}) : TRUE,
                                 CHOOSE p \in ClientPlayers({"B"}, {FALSE}, {Some(V8)}) : TRUE>>]

NextSummary ==
    \/ ClickReveal
    \/ SummarySettlesAny
    \/ SocketCloses
    \/ Reconnects
    \/ \E payload \in [average : {Some(650)}, aiSummary : {None}] : ClientReveal(payload)
    \/ \E outcome \in Outcomes : ClientAiSummary(generateVoteSummary(outcome))
    \/ ClientReset
    \/ \E c \in OneConn, payload \in [average : {None}, aiSummary : {None}] : Reveal(c, payload)
    \/ \E c \in OneConn, outcome \in Outcomes : AiSummary(c, generateVoteSummary(outcome))

SpecSummary == InitSummary /\ [][NextSummary]_vars /\ WF_vars(SummarySettlesAny)

\* Departure: each connection belongs to one client, which joins under its
\* own id only (useGameSession keeps one myId and sends JOIN when its socket
\* opens); a socket that closed or failed is replaced by a new one of the
\* same client.  A setTimeout callback that is due does run.

NextDeparture ==
    \/ \E c \in Conns : Connect(c)
    \/ \E c \in Conns : \E player \in JoinPayloads({myId(c)}, {None}) : Join(c, player, now)
    \/ \E c \in Conns : Close(c)
    \/ \E c \in Conns : SocketError(c)
    \/ RemovalTimer

SpecDeparture == Init /\ [][NextDeparture]_vars /\ WF_vars(RemovalTimer)

----------------------------------------------------------------------------
(* Properties *)

HostCount(ps) == Cardinality({i \in 1..Len(ps) : ps[i].isHost})

\* the player a connection JOINed as holds host
IsHostConn(c) ==
    /\ c \in DOMAIN sessions
    /\ \E i \in 1..Len(players) : players[i].id = sessions[c] /\ players[i].isHost

\* the player a connection JOINed as is in players and does not hold host
IsNonHostConn(c) ==
    /\ c \in DOMAIN sessions
    /\ \E i \in 1..Len(players) : players[i].id = sessions[c] /\ ~players[i].isHost

\* two entries agree on every field but isDisconnected
SameButDisconnected(p, q) ==
    /\ p.id = q.id /\ p.vote = q.vote /\ p.isHost = q.isHost /\ p.joinedAt = q.joinedAt
    /\ p.health = q.health /\ p.isKnockedOut = q.isKnockedOut
    /\ p.poopHitCount = q.poopHitCount /\ p.isMonkey = q.isMonkey
    /\ p.lastHitTimestamp = q.lastHitTimestamp

\* two entries agree on every field but vote
SameButVote(p, q) ==
    /\ p.id = q.id /\ p.isHost = q.isHost /\ p.joinedAt = q.joinedAt
    /\ p.isDisconnected = q.isDisconnected
    /\ p.health = q.health /\ p.isKnockedOut = q.isKnockedOut
    /\ p.poopHitCount = q.poopHitCount /\ p.isMonkey = q.isMonkey
    /\ p.lastHitTimestamp = q.lastHitTimestamp

\* C1: in every reachable state the number of players with isHost = true is
\* 1 when players is non-empty and 0 when it is empty.
C1_ExactlyOneHost ==
    HostCount(players) = (IF players = <<>> THEN 0 ELSE 1)

\* C2: a removal timer that fires for a player who is connected again
\* (isDisconnected = false, because JOIN came after the LEAVE or close that
\* scheduled it) is a no-op: the players array, with that player's vote and
\* host flag, is what it was.
C2_StaleRemovalIsNoOp ==
    [][(/\ RemovalTimer
        /\ findIndex(players, Head(timers)) # 0
        /\ ~PlayerOf(players, Head(timers)).isDisconnected)
       => players' = players]_vars

\* C3: a REVEAL message from a connection whose player is not the host is
\* ignored: status, average and summary stay, nothing is broadcast as REVEAL
\* and no ERROR is sent.
C3_NonHostRevealIgnored ==
    [][\A c \in Conns, payload \in RevealPayloads :
         (Reveal(c, payload) /\ IsNonHostConn(c))
         => (/\ UNCHANGED <<status, average, aiSummary>>
             /\ lastEvent'.type \notin {"REVEAL", "ERROR"})]_vars

\* C4: a RESET message from a connection whose player is not the host is
\* ignored: status, average, summary and every vote stay and no RESET is
\* broadcast.
C4_NonHostResetIgnored ==
    [][\A c \in Conns :
         (Reset(c) /\ IsNonHostConn(c))
         => (/\ UNCHANGED <<status, average, aiSummary>>
             /\ \A i \in 1..Len(players) : players'[i].vote = players[i].vote
             /\ lastEvent'.type # "RESET")]_vars

\* the votes REVEAL has to average: not null, neither sentinel of the deck,
\* and a string parseInt reads a number from
NumericVotes(ps) ==
    {i \in 1..Len(ps) :
        /\ ps[i].vote # None
        /\ ps[i].vote[1] \notin {VUnsure, VCoffee}
        /\ parseInt(ps[i].vote[1]) # None}

RECURSIVE SumOver(_, _)
SumOver(ps, S) ==
    IF S = {} THEN 0
    ELSE LET i == CHOOSE x \in S : TRUE IN
           parseInt(ps[i].vote[1])[1] + SumOver(ps, S \ {i})

Abs(x) == IF x < 0 THEN 0 - x ELSE x

\* h (in hundredths) is the mean of the numeric votes rounded to two
\* decimals: no hundredth is nearer to the exact mean; 0 without numeric votes
IsRoundedMean(h, ps) ==
    LET S == NumericVotes(ps)
        n == Cardinality(S)
    IN IF n = 0 THEN h = 0
       ELSE 2 * Abs(100 * SumOver(ps, S) - h * n) <= n

\* C5: after REVEAL the stored average and the average of the REVEAL
\* broadcast are the mean of the numeric votes rounded to two decimals (0
\* when there is none), whatever average the request carried.
C5_AverageIsRoundedMean ==
    lastEvent.type = "REVEAL"
    => /\ average # None
       /\ IsRoundedMean(average[1], players)
       /\ lastEvent.payload.average = average

\* C5 witness: three votes 5, 5, 13 and a sentinel-free mean 7.67 that needs
\* rounding up, revealed by a request that carried another average.
C5_Witness ==
    /\ lastEvent.type = "REVEAL"
    /\ players[1].vote = Some(V5) /\ players[2].vote = Some(V5)
    /\ players[3].vote = Some(V13)
    /\ average = Some(767)

\* the host rule of the specification for a newly added player
SpecHostRule(ps, player) ==
    \/ player.isHost /\ ~hasExistingHost(ps)
    \/ ~hasExistingHost(ps) /\ Len(ps) = 0

\* C6: a player added by JOIN is stored with isHost true exactly when (it
\* claims host and nobody holds host) or (nobody holds host and the session
\* is empty).
C6_NewPlayerHostRule ==
    [][(lastEvent'.type = "JOIN" /\ findIndex(players, lastEvent'.payload.id) = 0)
       => PlayerOf(players', lastEvent'.payload.id).isHost
            = SpecHostRule(players, lastEvent'.payload)]_vars

\* C7: a client that held the actor's players and applies the JOIN broadcast
\* holds the actor's isHost and joinedAt of the joined player.
C7_JoinBroadcastIsStoredRecord ==
    [][lastEvent'.type = "JOIN"
       => LET id == lastEvent'.payload.id
              copy == PlayerOf(clientOnJoin(players, lastEvent'.payload), id)
              stored == PlayerOf(players', id)
          IN copy.isHost = stored.isHost /\ copy.joinedAt = stored.joinedAt]_vars

\* C8: JOIN for an id already in players leaves status, average, summary,
\* emojiThrows, timers and the players array as they were, but for isDisconnected = false
\* on that entry (no entry added, every other field kept); the same JOIN
\* again changes nothing more.
C8_RejoinOnlyClearsDisconnected ==
    [][(lastEvent'.type = "JOIN" /\ findIndex(players, lastEvent'.payload.id) # 0)
       => LET i == findIndex(players, lastEvent'.payload.id) IN
            /\ Len(players') = Len(players)
            /\ \A j \in 1..Len(players) :
                 /\ SameButDisconnected(players'[j], players[j])
                 /\ j # i => players'[j].isDisconnected = players[j].isDisconnected
            /\ ~players'[i].isDisconnected
            /\ UNCHANGED <<status, average, aiSummary, emojiThrows, timers>>
            /\ findIndex(players', lastEvent'.payload.id) = i
            /\ reconnectPlayer(players', i) = players']_vars

\* C8 witness: a JOIN was just handled for a player whose stored vote is not
\* the payload's (so the entry is older than this JOIN), who is connected,
\* whose removal is still pending, and who is host with one throw counted.
C8_Witness ==
    /\ lastEvent.type = "JOIN"
    /\ findIndex(players, lastEvent.payload.id) # 0
    /\ PlayerOf(players, lastEvent.payload.id).vote = Some(V5)
    /\ lastEvent.payload.vote = None
    /\ ~PlayerOf(players, lastEvent.payload.id).isDisconnected
    /\ \E k \in 1..Len(timers) : timers[k] = lastEvent.payload.id
    /\ PlayerOf(players, lastEvent.payload.id).poopHitCount = 1
    /\ PlayerOf(players, lastEvent.payload.id).isHost

\* a step of the removal timer that deleted a player
RemovalStep ==
    /\ lastEvent'.type = "STATE_SYNC" /\ lastEvent'.from = ""
    /\ Len(players') = Len(players) - 1

\* C9: when the removal timer deletes a host and somebody survives, a
\* survivor with the smallest joinedAt holds host afterwards and no other
\* survivor's isHost changes; when it deletes a non-host no isHost changes.
C9_HostSuccession ==
    [][RemovalStep
       => LET removed == PlayerOf(players, Head(timers))
              n == Len(players')
          IN /\ \A k \in 1..n : players'[k].id # removed.id
             /\ (removed.isHost /\ n > 0)
                => \E j \in 1..n :
                     /\ players'[j].isHost
                     /\ \A k \in 1..n : players'[j].joinedAt <= players'[k].joinedAt
                     /\ \A k \in 1..n :
                          k # j => players'[k].isHost
                                     = PlayerOf(players, players'[k].id).isHost
             /\ ~removed.isHost
                => \A k \in 1..n :
                     players'[k].isHost = PlayerOf(players, players'[k].id).isHost]_vars

\* C9 witness: the removal timer has just deleted A; B (joinedAt 1) is host
\* and C (joinedAt 2) is not.
C9_Witness ==
    /\ lastEvent.type = "STATE_SYNC" /\ lastEvent.from = ""
    /\ Len(players) = 2
    /\ players[1].id = "B" /\ players[1].joinedAt = 1 /\ players[1].isHost
    /\ players[2].id = "C" /\ players[2].joinedAt = 2 /\ ~players[2].isHost

\* C10: a RESET from the host's connection gives status VOTING, average and
\* summary null and every vote null, and keeps the players, their other
\* fields, emojiThrows, the connections and the timers; and votes 5 and 8
\* reveal as 6.50.
C10_ResetClearsRound ==
    [][/\ (lastEvent'.type = "RESET" /\ IsHostConn(lastEvent'.from))
          => /\ status' = VOTING /\ average' = None /\ aiSummary' = None
             /\ Len(players') = Len(players)
             /\ \A j \in 1..Len(players) :
                  players'[j].vote = None /\ SameButVote(players'[j], players[j])
             /\ UNCHANGED <<emojiThrows, sessions, timers, now>>
       /\ (/\ lastEvent'.type = "REVEAL" /\ Len(players') = 2
           /\ players'[1].vote = Some(V5) /\ players'[2].vote = Some(V8))
          => average' = Some(650)]_vars

\* C10 witness: the host's connection has just reset a round of two players;
\* the other player is not host, is knocked out and has a throw in flight
\* towards it.
C10_Witness ==
    /\ lastEvent.type = "RESET" /\ IsHostConn(lastEvent.from)
    /\ status = VOTING /\ average = None
    /\ Len(players) = 2
    /\ players[1].isHost /\ ~players[2].isHost
    /\ players[1].vote = None /\ players[2].vote = None
    /\ players[2].health = 0 /\ players[2].isKnockedOut
    /\ emojiThrows # <<>>

\* C11: right after a REVEAL from the host's connection status is REVEALED,
\* the stored summary is null and the REVEAL broadcast carries a null
\* summary, whatever summary the request carried.
C11_RevealClearsSummary ==
    (lastEvent.type = "REVEAL" /\ IsHostConn(lastEvent.from))
    => /\ status = REVEALED
       /\ aiSummary = None
       /\ lastEvent.payload.aiSummary = None

\* a step that marks the player with this id disconnected
MarksDisconnected(id) ==
    /\ findIndex(players, id) # 0
    /\ ~PlayerOf(players, id).isDisconnected
    /\ findIndex(players', id) # 0
    /\ PlayerOf(players', id).isDisconnected

\* C12: every step that marks a player disconnected, by LEAVE or by the close
\* of its connection, keeps the player in players and broadcasts LEAVE for
\* that player to every subscriber in the same step.
C12_DisconnectBroadcastsLeave ==
    [][\A id \in Ids :
         MarksDisconnected(id)
         => /\ Len(players') = Len(players)
            /\ lastEvent'.type = "LEAVE"
            /\ lastEvent'.payload.id = id
            /\ lastEvent'.to = DOMAIN sessions']_vars

\* C14: the step that accepts a connection sends it STATE_SYNC with the
\* whole game state of that moment, and no message reaches a connection
\* before that step.
C14_FirstMessageIsStateSync ==
    [][\A c \in Conns :
         /\ (c \notin DOMAIN sessions /\ c \in DOMAIN sessions')
            => /\ lastEvent'.type = "STATE_SYNC"
               /\ lastEvent'.to = {c}
               /\ lastEvent'.payload
                    = gameState(status', players', average', aiSummary', emojiThrows')
         /\ (c \in lastEvent'.to /\ c \notin DOMAIN sessions)
            => (c \in DOMAIN sessions' /\ lastEvent'.type = "STATE_SYNC")]_vars

\* C14 witness: a second connection has just been accepted into a revealed
\* round of two players and was sent the snapshot.
C14_Witness ==
    /\ lastEvent.type = "STATE_SYNC"
    /\ lastEvent.to = {"c2"}
    /\ "c1" \in DOMAIN sessions
    /\ status = REVEALED
    /\ Len(players) = 2
    /\ lastEvent.payload.status = REVEALED
    /\ lastEvent.payload.players = players
    /\ lastEvent.payload.average = average

\* the player is in players and no connection is bound to its id: its socket
\* closed or failed and its client has not joined again
Departed(id) ==
    /\ findIndex(players, id) # 0
    /\ \A c \in DOMAIN sessions : sessions[c] # id

\* C13: a player whose connection is lost does not stay in players forever:
\* it is removed, unless its client joins again.
C13_DepartedIsRemoved ==
    \A id \in TwoIds : Departed(id) ~> ~Departed(id)

\* C15: a message answered by ERROR is answered to its sender only and
\* leaves the session state as it was before the message.
C15_ErrorLeavesStateUntouched ==
    [][lastEvent'.type = "ERROR"
       => /\ lastEvent'.to = {lastEvent'.from}
          /\ UNCHANGED <<status, players, average, aiSummary, emojiThrows, sessions,
                         timers>>]_vars

\* C19: a HIT_PLAYER that names a throw which is not in emojiThrows (it was
\* acknowledged before) changes no player's health and no knockout flag.
C19_StaleHitIsNoOp ==
    [][(/\ lastEvent'.type = "HIT_PLAYER"
        /\ ~lastEvent'.payload.reset
        /\ lastEvent'.payload.throwId # None
        /\ lastEvent'.payload.throwId[1] \notin InFlight)
       => \A j \in 1..Len(players) :
            /\ players'[j].health = players[j].health
            /\ players'[j].isKnockedOut = players[j].isKnockedOut]_vars

\* C20: every player's health is between 0 and 100, whatever damage the
\* HIT_PLAYER messages carry.
C20_HealthInRange ==
    \A j \in 1..Len(players) : players[j].health \in 0..100

\* C16: once the auto-reveal predicate has held without a break for the
\* whole delay, REVEAL was sent when the delay counted from the moment the
\* predicate began to hold elapsed.
C16_AutoRevealOnTime ==
    (client.heldSince # None /\ client.clock > client.heldSince[1] + RevealDelay)
    => (client.sent.type = "REVEAL" /\ client.sent.at = client.heldSince[1] + RevealDelay)

\* C17: a pending auto-reveal timer exists only while the predicate holds in
\* the hook's state (a change that falsifies it cancels the timer), and the
\* timer sends REVEAL only in a state where the predicate holds.
C17_AutoRevealOnlyWhenReady ==
    [][/\ client'.autoRevealTimer # None
          => autoRevealReady(client'.players, client'.status)
       /\ (client.autoRevealTimer = Some(client.clock) /\ client'.revealed > client.revealed)
          => autoRevealReady(client.players, client.status)]_vars

\* C17 witness: a pending timer was cancelled at second 1 because the
\* predicate had become false, the predicate held again from second 2, and
\* the timer set then sent REVEAL at second 7.
C17_Witness ==
    /\ client.cancelledAt = Some(1)
    /\ client.heldSince = Some(2)
    /\ client.sent = [type |-> "REVEAL", at |-> 7]
    /\ client.autoRevealTimer = None

\* what C18 says of single steps: a reveal sends REVEAL in the step that
\* starts the generator, so before the summary exists; a promise that
\* settles while the socket is open sends AI_SUMMARY with a string, be it the
\* summary, the default or the placeholder; AI_SUMMARY changes nothing but
\* the summary, in the actor and in the hook.
SummarySteps ==
    /\ (client'.revealed > client.revealed /\ client.open)
       => /\ client'.sent.type = "REVEAL"
          /\ client'.promises = client.promises + 1
    /\ (client'.promises < client.promises /\ client.open)
       => /\ client'.sent.type = "AI_SUMMARY"
          /\ client'.sent.aiSummary \in {generateVoteSummary(o) : o \in Outcomes}
          /\ client'.answered = client.answered + 1
    /\ lastEvent'.type = "AI_SUMMARY" => UNCHANGED <<status, average, players>>
    /\ \A o \in Outcomes :
         ClientAiSummary(generateVoteSummary(o))
         => /\ client'.status = client.status
            /\ client'.average = client.average
            /\ client'.players = client.players

C21_PoopThrowCounts ==
    [][/\ \A j \in 1..Len(players) : players[j].isMonkey => players'[j].isMonkey
       /\ lastEvent'.type = "THROW_EMOJI" =>
            LET i == findIndex(players, lastEvent'.payload.fromPlayerId) IN
              \A j \in 1..Len(players) :
                IF j = i /\ lastEvent'.payload.emoji = Poop
                THEN /\ players'[j].poopHitCount = players[j].poopHitCount + 1
                     /\ players'[j].isMonkey =
                          (players[j].isMonkey \/ players'[j].poopHitCount = MonkeyThreshold)
                ELSE /\ players'[j].poopHitCount = players[j].poopHitCount
                     /\ players'[j].isMonkey = players[j].isMonkey]_vars

\* a HIT_PLAYER step that acknowledges a heart in flight, and its target
IsHealHit ==
    /\ lastEvent'.type = "HIT_PLAYER"
    /\ ~lastEvent'.payload.reset
    /\ lastEvent'.payload.throwId # None
    /\ emojiOfThrow(lastEvent'.payload.throwId[1]) = Some(Heart)

HitTarget == findIndex(players, lastEvent'.payload.playerId)

\* C22: a heart HIT on a monkey advances the monkey's heart counter, and the
\* fifth one clears isMonkey and sets poopHitCount and the heart counter to
\* 0; a heart HIT on a player who is no monkey leaves the heart counter.
C22_FiveHeartsRevertMonkey ==
    [][(IsHealHit /\ HitTarget # 0) =>
         LET p == players[HitTarget]
             q == players'[HitTarget] IN
           IF p.isMonkey
           THEN IF heartHitCountOf(p) + 1 >= MonkeyThreshold
                THEN ~q.isMonkey /\ q.poopHitCount = 0 /\ heartHitCountOf(q) = 0
                ELSE q.isMonkey /\ heartHitCountOf(q) = heartHitCountOf(p) + 1
           ELSE heartHitCountOf(q) = heartHitCountOf(p) /\ ~q.isMonkey]_vars

\* C23: a heart HIT never lowers the target's health, never raises it above
\* 100 and never knocks the target out; a HIT of another symbol lowers the
\* health by the damage, not below 0, and sets isKnockedOut = (health = 0).
C23_HeartHealsOthersDamage ==
    [][(/\ lastEvent'.type = "HIT_PLAYER"
        /\ ~lastEvent'.payload.reset
        /\ lastEvent'.payload.damage # None
        /\ HitTarget # 0) =>
         LET p == players[HitTarget]
             q == players'[HitTarget]
             d == lastEvent'.payload.damage[1] IN
           IF IsHealHit
           THEN q.health >= p.health /\ q.health <= 100 /\ (q.isKnockedOut => p.isKnockedOut)
           ELSE /\ q.health = (IF p.health - d > 0 THEN p.health - d ELSE 0)
                /\ q.isKnockedOut = (q.health = 0)]_vars

\* C24: a player who is knocked out in the session actor is reset (health
\* 100, not knocked out) later on, also when two hooks acknowledge hits from
\* copies of the health that lag behind the actor's.
C24_KnockoutRecovers ==
    PlayerOf(players, "B").isKnockedOut
      ~> (PlayerOf(players, "B").health = 100 /\ ~PlayerOf(players, "B").isKnockedOut)

\* C25: a reset HIT_PLAYER (the knockout recovery firing) whose target is not
\* knocked out any more (health > 0) or is not in players changes no
\* player's health and no knockout flag.
C25_StaleRecoveryIsNoOp ==
    [][(/\ lastEvent'.type = "HIT_PLAYER"
        /\ lastEvent'.payload.reset
        /\ \/ HitTarget = 0
           \/ players[HitTarget].health > 0)
       => \A j \in 1..Len(players) :
            /\ players'[j].health = players[j].health
            /\ players'[j].isKnockedOut = players[j].isKnockedOut]_vars

\* C26: when the send of a broadcast to a connection fails, every other
\* connection of sessions still gets the event, and the failing connection is
\* taken out of sessions and its player is marked disconnected.
C26_FailedSendDisconnects ==
    [][(lastEvent'.type = "VOTE" /\ lastEvent'.failed # {}) =>
         /\ lastEvent'.to = (DOMAIN sessions) \ lastEvent'.failed
         /\ \A b \in lastEvent'.failed :
              /\ b \notin DOMAIN sessions'
              /\ findIndex(players, sessions[b]) # 0
                   => PlayerOf(players', sessions[b]).isDisconnected]_vars

\* C27: VOTE for a player of the session, in either status, sets that
\* player's vote to the value sent, whatever string it is, is broadcast as it
\* was sent to every connection, and changes nothing else of any player
\* nor status, average or summary; VOTE for an unknown id changes nothing
\* and sends nothing.
C27_VoteSetsOneVote ==
    [][\A c \in Conns, id \in Ids, v \in RichVotes :
         Vote(c, id, v) =>
           IF findIndex(players, id) # 0
           THEN /\ Len(players') = Len(players)
                /\ \A j \in 1..Len(players) :
                     IF players[j].id = id
                     THEN players'[j].vote = v /\ SameButVote(players[j], players'[j])
                     ELSE players'[j] = players[j]
                /\ lastEvent' = [type |-> "VOTE", from |-> c, to |-> DOMAIN sessions,
                                 payload |-> [id |-> id, vote |-> v]]
                /\ UNCHANGED <<status, average, aiSummary, emojiThrows, sessions>>
           ELSE /\ UNCHANGED <<status, players, average, aiSummary, emojiThrows, sessions>>
                /\ lastEvent'.to = {}]_vars

\* a vote outside the deck was accepted after the reveal, next to a player
\* whose vote is another one
C27_Witness ==
    /\ status = REVEALED
    /\ lastEvent.type = "VOTE"
    /\ lastEvent.payload.vote = Some(V3x)
    /\ PlayerOf(players, lastEvent.payload.id).vote = Some(V3x)
    /\ \E j \in 1..Len(players) : players[j].vote = Some(V5)

\* C28: the entry that a JOIN appends to players has vote null, health 100,
\* isKnockedOut false, the hit counters at 0, isMonkey false, isDisconnected
\* false and the actor's clock as joinedAt, whatever the JOIN payload holds.
C28_NewPlayerIsInitialised ==
    [][(lastEvent'.type = "JOIN" /\ Len(players') = Len(players) + 1) =>
         LET p == players'[Len(players')] IN
           /\ p.id = lastEvent'.payload.id
           /\ p.vote = None
           /\ p.health = 100
           /\ ~p.isKnockedOut
           /\ p.poopHitCount = 0
           /\ heartHitCountOf(p) = 0
           /\ ~p.isMonkey
           /\ ~p.isDisconnected
           /\ p.joinedAt = now']_vars

\* C29: THROW_EMOJI appends the throw it carries to emojiThrows, is broadcast
\* to every connection, and leaves every player's health and knockout flag as
\* they were; a player's health changes in HIT_PLAYER steps only.
C29_ThrowLeavesHealth ==
    [][/\ lastEvent'.type = "THROW_EMOJI" =>
            /\ emojiThrows' = Append(emojiThrows, lastEvent'.payload)
            /\ lastEvent'.to = DOMAIN sessions
            /\ Len(players') = Len(players)
            /\ \A j \in 1..Len(players) :
                 /\ players'[j].health = players[j].health
                 /\ players'[j].isKnockedOut = players[j].isKnockedOut
       /\ \A j \in 1..Len(players) :
            (j <= Len(players') /\ players'[j].id = players[j].id
             /\ players'[j].health # players[j].health)
              => lastEvent'.type = "HIT_PLAYER"]_vars

\* a counted throw has just been made at a player who lies knocked out
C29_Witness ==
    /\ lastEvent.type = "THROW_EMOJI"
    /\ lastEvent.payload.emoji = PoopLiteral
    /\ Len(emojiThrows) = 1
    /\ PlayerOf(players, "A").poopHitCount = 2
    /\ PlayerOf(players, "B").health = 0
    /\ PlayerOf(players, "B").isKnockedOut

\* C30: the average is null exactly while the status is VOTING, and a number
\* while it is REVEALED.
C30_AverageOnlyWhenRevealed ==
    /\ status = VOTING <=> average = None
    /\ status = REVEALED => (average # None /\ average[1] \in Nat)

\* revealed with no vote at all: the average is the number 0
C30_Witness ==
    /\ status = REVEALED
    /\ lastEvent.type = "REVEAL"
    /\ \A j \in 1..Len(players) : players[j].vote = None
    /\ average = Some(0)

\* C31: a player is knocked out only with health 0, and a reset HIT_PLAYER
\* leaves its target with health 100 and not knocked out.
C31_KnockedOutOnlyAtZero ==
    /\ [](\A j \in 1..Len(players) : players[j].isKnockedOut => players[j].health = 0)
    /\ [][(lastEvent'.type = "HIT_PLAYER" /\ lastEvent'.payload.reset /\ HitTarget # 0)
           => /\ players'[HitTarget].health = 100
              /\ ~players'[HitTarget].isKnockedOut]_vars

\* B was hit before and has just been reset
C31_Witness ==
    /\ lastEvent.type = "HIT_PLAYER"
    /\ lastEvent.payload.reset
    /\ PlayerOf(players, "B").lastHitTimestamp # None
    /\ PlayerOf(players, "B").health = 100
    /\ ~PlayerOf(players, "B").isKnockedOut

\* C32: no two entries of players have the same id, and the entries stand in
\* non-decreasing order of joinedAt.
C32_PlayersUniqueAndOrdered ==
    \A j, k \in 1..Len(players) :
        j < k => /\ players[j].id # players[k].id
                 /\ players[j].joinedAt <= players[k].joinedAt

\* A has joined again after its removal and now stands behind C, who joined
\* earlier; a removal is pending
C32_Witness ==
    /\ lastEvent.type = "JOIN"
    /\ Len(players) = 2
    /\ players[1].id = "C" /\ players[2].id = "A"
    /\ players[1].joinedAt < players[2].joinedAt
    /\ players[1].isDisconnected
    /\ timers # <<>>

C34_RemovedAfterFullGrace ==
    [][(/\ findIndex(players, "B") # 0
        /\ findIndex(players', "B") = 0
        /\ client.since # None)
       => client.clock - client.since[1] >= RemovalDelay]_vars

\* C35: the close of a connection whose player id has joined on another
\* connection that is still open neither marks that player disconnected nor
\* sets a removal timer for it.
C35_SupersededCloseIsHarmless ==
    [][\A c \in Conns :
         (/\ Close(c)
          /\ sessions[c] # ""
          /\ \E d \in (DOMAIN sessions) \ {c} : sessions[d] = sessions[c])
         => UNCHANGED <<players, timers>>]_vars

\* C36: a client whose copy of players agreed with the actor's and that
\* applies a JOIN broadcast still holds the actor's vote of every player; a
\* player who voted and joins again keeps the vote in the copies too.
C36_ClientVotesFollowActor ==
    [][lastEvent'.type = "JOIN"
       => LET copy == clientOnJoin(players, lastEvent'.payload) IN
            /\ Len(copy) = Len(players')
            /\ \A j \in 1..Len(players') :
                 /\ copy[j].id = players'[j].id
                 /\ copy[j].vote = players'[j].vote]_vars

\* C37: while the status is VOTING the summary is null: an AI_SUMMARY that
\* arrives after RESET, or outside a revealed round, is not applied.
C37_NoSummaryWhileVoting ==
    status = VOTING => aiSummary = None

\* C38: every throw in emojiThrows is removed from it later on, also a throw
\* at an id that is no player and a throw whose target is removed while it
\* is in flight.
C38_ThrowsAreRemoved ==
    \A id \in {"t1", "t2"} : (id \in InFlight) ~> (id \notin InFlight)


\* C39: in the BroadcastChannel variant, a tab that handles a message (JOIN,
\* VOTE, REVEAL, RESET, LEAVE, THROW_EMOJI or HIT_PLAYER) posted by a tab of
\* another session keeps the game state it holds, and the state persisted for
\* its session stays what it was.
C39_OtherSessionsUntouched ==
    [][\A t \in Tabs :
         (/\ t \in client.mounted
          /\ client.inbox[t] # <<>>
          /\ client'.inbox[t] = Tail(client.inbox[t])
          /\ t \in client'.mounted
          /\ sessionIdOf(Head(client.inbox[t]).from) # sessionIdOf(t))
         => /\ client'.tabs[t] = client.tabs[t]
            /\ client'.storage[sessionIdOf(t)] = client.storage[sessionIdOf(t)]]_vars

====
